---------------------------- MODULE Spec2Model ----------------------------
(***************************************************************************)
(* A model of the coordinate-grid engine of PyAutoLens:                    *)
(*   src/autolens/lensing/grids.py  (ImageGrid, SubGrid, LensingGrids,     *)
(*                                   ImageGridBorder, BorderCollection)    *)
(* Python values are records with a cls field; None is the record whose    *)
(* cls is "NoneType".  A grid is a sequence of points, a point a pair      *)
(* <<column 0, column 1>> of integers.                                     *)
(***************************************************************************)
EXTENDS Integers, Sequences, FiniteSets, TLC

VARIABLES
    grids,        \* the LensingGrids instance under test (or NoCollection)
    deflections,  \* the result of grids.apply_function(func)
    traced,       \* the result of grids.map_function(func, deflections)
    relocated,    \* the result of borders.relocated_grids_from_grids(grids)
    raised,       \* the exception that ended the run, and the call it left
    noneCalls,    \* <<operation, tier>> pairs where func received None
    call,         \* the arguments of the LensingGrids(...) call made
    input,        \* the arguments (or the object) of the operation under test
    output,       \* what the function under test returned
    pc            \* "idle", then "ready" / "built" / "done" along one evaluation

collVars == <<grids, deflections, traced, relocated, raised, noneCalls, call>>

funVars == <<input, output, pc>>

vars == <<grids, deflections, traced, relocated, raised, noneCalls, call,
          input, output, pc>>

----------------------------------------------------------------------------
(* Bounds of the model.                                                    *)

MaxLen == 2          \* longest literal grid handed to a constructor
MaxGalaxies == 2     \* most galaxies handed to one field evaluation
MaxProfiles == 2     \* most profiles one galaxy owns
MaxSubGridSize == 2  \* largest sub_grid_size of a sub-grid
MaxPixels == 2       \* most image pixels behind one array of sub-grid data
MaxShape == 2        \* most rows, and most columns, of a mask

----------------------------------------------------------------------------
(* Python values.                                                          *)

None == [cls |-> "NoneType", pts |-> <<>>, sub_grid_size |-> 0]

\* An argument left out of a call (Python has no value for it).
Omitted == [cls |-> "omitted", pts |-> <<>>, sub_grid_size |-> 0]

\* The outcome of a call that raised instead of returning.
Raise(exc) == [cls |-> exc, pts |-> <<>>, sub_grid_size |-> 0]

IsRaise(v) ==
    v.cls \in {"TypeError", "ValueError", "IndexError", "AttributeError"}

ndarray(arr) == [cls |-> "ndarray", pts |-> arr, sub_grid_size |-> 0]

ImageGrid(arr) == [cls |-> "ImageGrid", pts |-> arr, sub_grid_size |-> 0]

SubGrid(arr, sub_grid_size) ==
    [cls |-> "SubGrid", pts |-> arr, sub_grid_size |-> sub_grid_size]

IsGrid(v) == v.cls \in {"ndarray", "ImageGrid", "SubGrid"}

Tiers == {"image", "sub", "blurring"}

\* LensingGrids.__init__: the three attributes are stored as given.
LensingGrids(image, sub, blurring) ==
    [image |-> image, sub |-> sub, blurring |-> blurring]

\* LensingGrids.__getitem__: [self.image, self.sub, self.blurring][item], a
\* list of three, so that the items -3, -2, -1 count from its end.
GetItem(self, item) ==
    IF item \in {0, -3} THEN self.image
    ELSE IF item \in {1, -2} THEN self.sub
    ELSE IF item \in {2, -1} THEN self.blurring
    ELSE Raise("IndexError")

\* The arguments of a LensingGrids(...) call, as the caller wrote them.
Arguments(image, sub, blurring) ==
    [image |-> image, sub |-> sub, blurring |-> blurring]

\* A variable that holds no collection (yet).
NoCollection == LensingGrids(Omitted, Omitted, Omitted)

\* A call that raised: the exception, in the place of the collection.
RaisedCollection(exc) == LensingGrids(Raise(exc), Raise(exc), Raise(exc))

IsCollection(c) == c # NoCollection /\ ~IsRaise(c.image)


----------------------------------------------------------------------------
(* Points and the deflection field of a set of galaxies.  The profile      *)
(* evaluators and the aggregation over galaxies are collaborators of the   *)
(* grid module: the specification's section 4.3 and 6 fix their contract   *)
(* (pure functions of the point; the field of a list of galaxies is the    *)
(* vector sum over all galaxies and all their profiles).                   *)

VAdd(p, q) == <<p[1] + q[1], p[2] + q[2]>>

VSub(p, q) == <<p[1] - q[1], p[2] - q[2]>>

Sgn(a) == IF a > 0 THEN 1 ELSE IF a < 0 THEN -1 ELSE 0

\* One mass profile's deflection at a point: a pure function of the point.
\* "sheet" is linear in the point, "step" is not.
ProfileDeflection(profile, p) ==
    IF profile.kind = "sheet"
    THEN <<profile.k * p[1], profile.k * p[2]>>
    ELSE <<profile.k * Sgn(p[1]), profile.k * Sgn(p[2])>>

\* A galaxy that deflects with its first mass profile only.
GalaxyDeflectionFirstOnly(mass_profiles, p) ==
    IF mass_profiles = <<>> THEN <<0, 0>>
    ELSE ProfileDeflection(Head(mass_profiles), p)

RECURSIVE GalaxyDeflection(_, _)
\* Sum over the mass profiles one galaxy owns (zero for none).
GalaxyDeflection(mass_profiles, p) ==
    IF mass_profiles = <<>> THEN <<0, 0>>
    ELSE VAdd(ProfileDeflection(Head(mass_profiles), p),
              GalaxyDeflection(Tail(mass_profiles), p))

\* An aggregation that stops at the first galaxy.
DeflectionAtFirstOnly(galaxies, p) ==
    IF galaxies = <<>> THEN <<0, 0>>
    ELSE GalaxyDeflection(Head(galaxies), p)

RECURSIVE DeflectionAt(_, _)
\* Sum over the galaxies (zero for none).
DeflectionAt(galaxies, p) ==
    IF galaxies = <<>> THEN <<0, 0>>
    ELSE VAdd(GalaxyDeflection(Head(galaxies), p),
              DeflectionAt(Tail(galaxies), p))

\* A field with no entry at all when there is no galaxy.
deflections_on_grid_unshaped(galaxies, arr) ==
    IF galaxies = <<>> THEN <<>>
    ELSE [i \in 1..Len(arr) |-> DeflectionAt(galaxies, arr[i])]

\* The deflection field on a grid: one vector per point, in grid order.
deflections_on_grid(galaxies, arr) ==
    [i \in 1..Len(arr) |-> DeflectionAt(galaxies, arr[i])]

\* One light profile's intensity at a point: a pure function of the point.
ProfileIntensity(profile, p) ==
    IF profile.kind = "sheet"
    THEN profile.k * (p[1] * p[1] + p[2] * p[2])
    ELSE profile.k

RECURSIVE GalaxyIntensity(_, _)
\* Sum over the light profiles one galaxy owns (zero for none).
GalaxyIntensity(light_profiles, p) ==
    IF light_profiles = <<>> THEN 0
    ELSE ProfileIntensity(Head(light_profiles), p)
             + GalaxyIntensity(Tail(light_profiles), p)

RECURSIVE IntensityAt(_, _)
\* Sum over the galaxies (zero for none).
IntensityAt(galaxies, p) ==
    IF galaxies = <<>> THEN 0
    ELSE GalaxyIntensity(Head(galaxies), p) + IntensityAt(Tail(galaxies), p)

\* The intensity on a grid: one value per point, in grid order.
intensities_via_grid(galaxies, arr) ==
    [i \in 1..Len(arr) |-> IntensityAt(galaxies, arr[i])]

----------------------------------------------------------------------------
(* The functions callers hand to apply_function and map_function.          *)

\* A deflection function func(grid).  On a grid it returns the field of
\* its galaxies, as an array of the grid's class.  Handed None it does what
\* func.onNone says: numpy arithmetic raises TypeError, a None-aware
\* caller's function returns None, another returns an empty array.
CallFunc(func, v) ==
    IF v = None
    THEN IF func.onNone = "raise" THEN Raise("TypeError")
         ELSE IF func.onNone = "None" THEN None
         ELSE ndarray(<<>>)
    ELSE [v EXCEPT !.pts = deflections_on_grid(func.galaxies, v.pts)]

\* The operand whose class wraps the result of a ufunc, and from which the
\* result is finalized: the leftmost one that is not a plain ndarray.
WrappingOperand(a, b) == IF a.cls # "ndarray" THEN a ELSE b

\* numpy.subtract(a, b) on two [n, 2] arrays: a None operand raises
\* TypeError when None - x is evaluated for some element, and against an
\* empty array no element is: the result is the empty array.  Equal
\* lengths subtract row by row, a one-row operand is broadcast, any other
\* pair of lengths raises ValueError.
np_subtract(a, b) ==
    IF a = None /\ b = None THEN Raise("TypeError")
    ELSE IF a = None THEN (IF b.pts = <<>> THEN b ELSE Raise("TypeError"))
    ELSE IF b = None THEN (IF a.pts = <<>> THEN a ELSE Raise("TypeError"))
    ELSE IF Len(a.pts) = Len(b.pts)
    THEN [WrappingOperand(a, b) EXCEPT
             !.pts = [i \in 1..Len(a.pts) |-> VSub(a.pts[i], b.pts[i])]]
    ELSE IF Len(b.pts) = 1
    THEN [WrappingOperand(a, b) EXCEPT
             !.pts = [i \in 1..Len(a.pts) |-> VSub(a.pts[i], b.pts[1])]]
    ELSE IF Len(a.pts) = 1
    THEN [WrappingOperand(a, b) EXCEPT
             !.pts = [i \in 1..Len(b.pts) |-> VSub(a.pts[1], b.pts[i])]]
    ELSE Raise("ValueError")

\* The tracing function func(grid, deflection): numpy.subtract, or a
\* caller's wrapper of it that returns None when either operand is None.
CallFunc2(func, a, b) ==
    IF (a = None \/ b = None) /\ func.onNone = "None" THEN None
    ELSE np_subtract(a, b)

----------------------------------------------------------------------------
(* LensingGrids.apply_function and LensingGrids.map_function.              *)

\* LensingGrids(...) of three evaluated arguments: Python evaluates them
\* left to right and the first exception leaves the call.
Returned(image, sub, blurring) ==
    IF IsRaise(image) THEN RaisedCollection(image.cls)
    ELSE IF IsRaise(sub) THEN RaisedCollection(sub.cls)
    ELSE IF IsRaise(blurring) THEN RaisedCollection(blurring.cls)
    ELSE LensingGrids(image, sub, blurring)

\* if self.blurring is not None:
\*     return LensingGrids(func(self.image), func(self.sub), func(self.blurring))
\* else:
\*     return LensingGrids(func(self.image), func(self.sub), None)
apply_function(self, func) ==
    IF self.blurring # None
    THEN Returned(CallFunc(func, self.image), CallFunc(func, self.sub),
                  CallFunc(func, self.blurring))
    ELSE Returned(CallFunc(func, self.image), CallFunc(func, self.sub), None)

\* The tiers apply_function hands to func as None: func(self.image) and
\* func(self.sub) are called whatever they hold, func(self.blurring) only
\* behind the None test; a call after the first exception is not made.
apply_function_none_calls(self, func) ==
    {t \in {"image", "sub"} :
        /\ self[t] = None
        /\ (t = "sub" => ~IsRaise(CallFunc(func, self.image)))}

\* return LensingGrids(*[func(*args) for args in zip(self, *arg_lists)])
\* zip iterates self and the argument collection through __getitem__, items
\* 0, 1, 2, to the IndexError of item 3: func is called once per tier.
map_function(self, func, arg_list) ==
    Returned(CallFunc2(func, GetItem(self, 0), GetItem(arg_list, 0)),
             CallFunc2(func, GetItem(self, 1), GetItem(arg_list, 1)),
             CallFunc2(func, GetItem(self, 2), GetItem(arg_list, 2)))

TierAt(item) == IF item = 0 THEN "image" ELSE IF item = 1 THEN "sub" ELSE "blurring"

\* The tiers map_function hands to func with a None operand.
map_function_none_calls(self, func, arg_list) ==
    {TierAt(i) : i \in
        {j \in 0..2 :
            /\ GetItem(self, j) = None \/ GetItem(arg_list, j) = None
            /\ \A h \in 0..(j - 1) :
                 ~IsRaise(CallFunc2(func, GetItem(self, h), GetItem(arg_list, h)))}}

----------------------------------------------------------------------------
(* Floating-point values of the border code, kept exact: a float is a      *)
(* fraction n/d in lowest terms with d > 0, or one of IEEE's specials,     *)
(* written with d = 0: 1/0 is inf, -1/0 is -inf, 0/0 is nan.  Signed zeros *)
(* are not told apart.                                                     *)

Abs(a) == IF a < 0 THEN -a ELSE a

RECURSIVE GCD(_, _)
GCD(a, b) == IF b = 0 THEN a ELSE GCD(b, a % b)

\* The fraction n/d (d # 0) in lowest terms.
Lowest(n, d, g) == [n |-> n \div g, d |-> d \div g]

Q(n, d) ==
    IF d < 0 THEN Lowest(-n, -d, GCD(Abs(n), Abs(d)))
    ELSE Lowest(n, d, GCD(Abs(n), Abs(d)))

FromInt(a) == [n |-> a, d |-> 1]

Inf == [n |-> 1, d |-> 0]

NaN == [n |-> 0, d |-> 0]

One == FromInt(1)

IsNaN(a) == a.d = 0 /\ a.n = 0

IsFinite(a) == a.d # 0

FNeg(a) == [n |-> -a.n, d |-> a.d]

FAdd(a, b) ==
    IF IsNaN(a) \/ IsNaN(b) THEN NaN
    ELSE IF a.d = 0 /\ b.d = 0 THEN (IF a.n = b.n THEN a ELSE NaN)
    ELSE IF a.d = 0 THEN a
    ELSE IF b.d = 0 THEN b
    ELSE Q(a.n * b.d + b.n * a.d, a.d * b.d)

FSub(a, b) == FAdd(a, FNeg(b))

FMul(a, b) ==
    IF IsNaN(a) \/ IsNaN(b) THEN NaN
    ELSE IF a.d = 0 \/ b.d = 0
    THEN (IF a.n = 0 \/ b.n = 0 THEN NaN ELSE [n |-> Sgn(a.n) * Sgn(b.n), d |-> 0])
    ELSE Q(a.n * b.n, a.d * b.d)

\* numpy.divide under errstate(divide='ignore'): x/0 is +-inf, 0/0 is nan.
FDiv(a, b) ==
    IF IsNaN(a) \/ IsNaN(b) THEN NaN
    ELSE IF b.d = 0 THEN (IF a.d = 0 THEN NaN ELSE FromInt(0))
    ELSE IF b.n = 0 THEN (IF a.n = 0 THEN NaN ELSE [n |-> Sgn(a.n), d |-> 0])
    ELSE IF a.d = 0 THEN [n |-> a.n * Sgn(b.n), d |-> 0]
    ELSE Q(a.n * b.d, a.d * b.n)

\* a > b; every comparison with nan is false.
FGt(a, b) == ~IsNaN(a) /\ ~IsNaN(b) /\ a.n * b.d > b.n * a.d

IsSquare(n) == \E r \in 0..n : r * r = n

ISqrt(n) == CHOOSE r \in 0..n : r * r = n

\* The values whose square root is a fraction again (or a special).
HasExactSqrt(a) == a.d = 0 \/ (a.n >= 0 /\ IsSquare(a.n) /\ IsSquare(a.d))

FSqrt(a) ==
    IF a.d = 0 THEN (IF a.n = 1 THEN Inf ELSE NaN)
    ELSE Q(ISqrt(a.n), ISqrt(a.d))

\* The directions whose angle is a whole number of degrees.
HasExactAngle(y, x) ==
    /\ IsFinite(y) /\ IsFinite(x)
    /\ y.n = 0 \/ x.n = 0 \/ FMul(y, y) = FMul(x, x)

\* numpy.degrees(numpy.arctan2(y, x)) on those directions, in (-180, 180].
Arctan2Degrees(y, x) ==
    IF y.n = 0 THEN (IF x.n < 0 THEN 180 ELSE 0)
    ELSE IF x.n = 0 THEN (IF y.n > 0 THEN 90 ELSE -90)
    ELSE IF y.n > 0 THEN (IF x.n > 0 THEN 45 ELSE 135)
    ELSE (IF x.n > 0 THEN -45 ELSE -135)

\* An integer array as an array of floats.
AsValues(data) == [i \in 1..Len(data) |-> FromInt(data[i])]

\* An integer grid as an array of floats.
AsFloats(arr) ==
    [i \in 1..Len(arr) |-> <<FromInt(arr[i][1]), FromInt(arr[i][2])>>]

----------------------------------------------------------------------------
(* ImageGridBorder: an index array with a polynomial degree and a centre.  *)
(* The arrays below are sequences of float points <<column 0, column 1>>;  *)
(* angles are whole degrees (see HasExactAngle).                           *)

\* ImageGridBorder.__new__(cls, arr, polynomial_degree=3, centre=(0.0, 0.0))
\* The dtype of np.array(arr) for a list of integers: int64, but float64
\* for the empty list.
np_array_dtype(arr) == IF arr = <<>> THEN "float64" ELSE "int64"

\* ImageGridBorder(np.array(arr), polynomial_degree, centre)
ImageGridBorder(arr, polynomial_degree, centre) ==
    [indices |-> arr, dtype |-> np_array_dtype(arr),
     polynomial_degree |-> polynomial_degree,
     centre |-> <<FromInt(centre[1]), FromInt(centre[2])>>]

\* ImageGridBorder(np.array(arr, dtype=int), polynomial_degree, centre)
ImageGridBorderOfInt(arr, polynomial_degree, centre) ==
    [ImageGridBorder(arr, polynomial_degree, centre) EXCEPT !.dtype = "int64"]

\* np.subtract(grid, self.centre), one row.
Shifted(self, p) == <<FSub(p[1], self.centre[1]), FSub(p[2], self.centre[2])>>

\* np.sqrt(np.add(np.square(grid[:, 0] - centre[0]),
\*                np.square(grid[:, 1] - centre[1])))
SquaredRadius(s) == FAdd(FMul(s[1], s[1]), FMul(s[2], s[2]))

grid_to_radii(self, grid) ==
    [i \in 1..Len(grid) |-> FSqrt(SquaredRadius(Shifted(self, grid[i])))]

\* shifted_grid = np.subtract(grid, self.centre)
\* theta_from_x = np.degrees(np.arctan2(shifted_grid[:, 1], shifted_grid[:, 0]))
\* theta_from_x[theta_from_x < 0.0] += 360.
\* The angle as arctan2 gives it, in (-180, 180].
FromXUnwrapped(theta_from_x) == theta_from_x

FromX(theta_from_x) ==
    IF theta_from_x < 0 THEN theta_from_x + 360 ELSE theta_from_x

ThetaFromX(s) == FromX(Arctan2Degrees(s[2], s[1]))

grid_to_thetas(self, grid) ==
    [i \in 1..Len(grid) |-> ThetaFromX(Shifted(self, grid[i]))]

\* grid[self]: numpy indexing by the border's index array.  An index i in
\* 0..n-1 selects row i, a negative one in -n..-1 row n+i.
IndexInRange(i, n) == -n <= i /\ i < n

Row(grid, i) == IF i >= 0 THEN grid[i + 1] ELSE grid[Len(grid) + i + 1]

BorderGrid(self, grid) ==
    [j \in 1..Len(self.indices) |-> Row(grid, self.indices[j])]

RECURSIVE FSum(_)
FSum(seq) == IF seq = <<>> THEN FromInt(0) ELSE FAdd(Head(seq), FSum(Tail(seq)))

RECURSIVE SelectWhere(_, _, _)
\* The entries y[i] with x[i] = t, in order.
SelectWhere(x, y, t) ==
    IF x = <<>> THEN <<>>
    ELSE IF Head(x) = t THEN <<Head(y)>> \o SelectWhere(Tail(x), Tail(y), t)
    ELSE SelectWhere(Tail(x), Tail(y), t)

Mean(seq) == FDiv(FSum(seq), FromInt(Len(seq)))

\* border_grid = grid[self]
\* return np.polyfit(self.grid_to_thetas(border_grid),
\*                   self.grid_to_radii(border_grid), self.polynomial_degree)
\* The fitted polynomial is kept as the data that fix it: the distinct
\* border angles (nodes) and the mean border radius at each.
polyfit(x, y, deg) ==
    [deg |-> deg,
     nodes |-> {x[i] : i \in 1..Len(x)},
     mean |-> [t \in {x[i] : i \in 1..Len(x)} |-> Mean(SelectWhere(x, y, t))],
     all |-> Mean(y)]

polynomial_fit_to_border(self, grid) ==
    polyfit(grid_to_thetas(self, BorderGrid(self, grid)),
            grid_to_radii(self, BorderGrid(self, grid)),
            self.polynomial_degree)

\* One element of a non-empty set of angles.
Pick(S) == CHOOSE v \in S : TRUE

RECURSIVE LagrangeBasis(_, _, _)
\* The product over the nodes u # t of (theta - u) / (t - u).
LagrangeBasis(others, t, theta) ==
    IF others = {} THEN One
    ELSE FMul(Q(theta - Pick(others), t - Pick(others)),
              LagrangeBasis(others \ {Pick(others)}, t, theta))

RECURSIVE LagrangeSum(_, _, _)
LagrangeSum(todo, poly, theta) ==
    IF todo = {} THEN FromInt(0)
    ELSE FAdd(FMul(poly.mean[Pick(todo)],
                   LagrangeBasis(poly.nodes \ {Pick(todo)}, Pick(todo), theta)),
              LagrangeSum(todo \ {Pick(todo)}, poly, theta))

\* The angles at which the least-squares polynomial of np.polyfit is fixed
\* by exact arithmetic: a constant is the mean of all border radii; with
\* deg + 1 distinct border angles the fit is the one polynomial through the
\* mean radius at each; with fewer, the fit still passes through those
\* means, and its value between them is not modelled.  A border whose
\* angles are all 0 gives polyfit a zero column to scale, and is left out.
PolyvalDefined(poly, theta) ==
    \/ poly.deg = 0
    \/ /\ poly.nodes # {0}
       /\ \/ Cardinality(poly.nodes) = poly.deg + 1
          \/ Cardinality(poly.nodes) < poly.deg + 1 /\ theta \in poly.nodes

\* np.polyval(poly, theta)
polyval(poly, theta) ==
    IF poly.deg = 0 THEN poly.all
    ELSE LagrangeSum(poly.nodes, poly, theta)

\* grid_thetas = self.grid_to_thetas(grid)
\* grid_radii = self.grid_to_radii(grid)
\* poly = self.polynomial_fit_to_border(grid)
\* with np.errstate(divide='ignore'):
\*     move_factors = np.divide(np.polyval(poly, grid_thetas), grid_radii)
\* move_factors[move_factors > 1.0] = 1.0
\* The ratio left as it is.
Uncapped(move_factor) == move_factor

CapAtOne(move_factor) == IF FGt(move_factor, One) THEN One ELSE move_factor

MoveFactors(grid_thetas, grid_radii, poly) ==
    [i \in 1..Len(grid_thetas) |->
        CapAtOne(FDiv(polyval(poly, grid_thetas[i]), grid_radii[i]))]

move_factors_from_grid(self, grid) ==
    MoveFactors(grid_to_thetas(self, grid), grid_to_radii(self, grid),
                polynomial_fit_to_border(self, grid))

\* move_factors = self.move_factors_from_grid(grid)
\* return np.multiply(grid, move_factors[:, None])
\* The factors taken from the other end of the array.
np_multiply_reversed(grid, move_factors) ==
    [i \in 1..Len(grid) |->
        <<FMul(grid[i][1], move_factors[Len(grid) + 1 - i]),
          FMul(grid[i][2], move_factors[Len(grid) + 1 - i])>>]

np_multiply(grid, move_factors) ==
    [i \in 1..Len(grid) |->
        <<FMul(grid[i][1], move_factors[i]), FMul(grid[i][2], move_factors[i])>>]

relocated_grid_from_grid(self, grid) ==
    np_multiply(grid, move_factors_from_grid(self, grid))

\* The grids on which every step above is exact: finite points whose
\* offset from the centre has a whole-degree angle and a fractional length,
\* border indices inside the grid, and a fit fixed at every grid angle.
ExactPoint(s) == HasExactAngle(s[2], s[1]) /\ HasExactSqrt(SquaredRadius(s))

ExactFor(self, grid) ==
    /\ \A i \in 1..Len(grid) : ExactPoint(Shifted(self, grid[i]))
    /\ \A j \in 1..Len(self.indices) : IndexInRange(self.indices[j], Len(grid))
    /\ self.indices # <<>>
    /\ \A i \in 1..Len(grid) :
          PolyvalDefined(polynomial_fit_to_border(self, grid),
                         grid_to_thetas(self, grid)[i])

\* np.multiply(grid, move_factors[:, None]) keeps the class of grid.  A
\* None grid fails in np.subtract(grid, self.centre) (TypeError), a border
\* that is not an integer array or has an index outside the grid in
\* grid[self] (IndexError), an empty integer border in np.polyfit
\* (TypeError: expected non-empty vector for x).
RelocatedValue(self, v) ==
    IF v = None THEN Raise("TypeError")
    ELSE IF self.dtype # "int64" THEN Raise("IndexError")
    ELSE IF \E j \in 1..Len(self.indices) :
               ~IndexInRange(self.indices[j], Len(v.pts))
    THEN Raise("IndexError")
    ELSE IF self.indices = <<>> THEN Raise("TypeError")
    ELSE [v EXCEPT !.pts = relocated_grid_from_grid(self, AsFloats(v.pts))]

\* BorderCollection.__init__(self, image, sub)
BorderCollection(image, sub) == [image |-> image, sub |-> sub]

\* return LensingGrids(image=self.image.relocated_grid_from_grid(grids.image),
\*                     sub=self.sub.relocated_grid_from_grid(grids.sub),
\*                     blurring=None)
relocated_grids_from_grids(self, c) ==
    Returned(RelocatedValue(self.image, c.image),
             RelocatedValue(self.sub, c.sub),
             None)

\* The collections a border collection relocates in exact arithmetic.
ExactForCollection(self, c) ==
    /\ IsRaise(RelocatedValue(self.image, c.image))
          \/ ExactFor(self.image, AsFloats(c.image.pts))
    /\ IsRaise(RelocatedValue(self.image, c.image))
          \/ IsRaise(RelocatedValue(self.sub, c.sub))
          \/ ExactFor(self.sub, AsFloats(c.sub.pts))

----------------------------------------------------------------------------
(* The inputs of the grid-collection specification.                        *)

\* Coordinates of literal grids: points on the axes through the origin.
Coords == {<<2, 0>>, <<0, -4>>}

\* The literal [n, 2] arrays of 1..MaxLen points.
Arrays == UNION {[1..n -> Coords] : n \in 1..MaxLen}

ImageArgs == {ImageGrid(arr) : arr \in Arrays}

SubArgs == {SubGrid(arr, 1) : arr \in Arrays} \cup {None, Omitted}

BlurringArgs == {ImageGrid(<<c>>) : c \in Coords} \cup {None, Omitted}

Sheet(k) == [kind |-> "sheet", k |-> k]

Step(k) == [kind |-> "step", k |-> k]

\* Deflection functions: no galaxy, one galaxy, two galaxies; the three
\* ways a Python function can treat a None argument.
DeflectionFuncs ==
    {[galaxies |-> g, onNone |-> o] :
        g \in {<<>>, << <<Sheet(1)>> >>, << <<Step(1)>>, <<Sheet(2), Step(3)>> >>},
        o \in {"raise", "None", "empty"}}

\* Tracing functions: numpy.subtract, and a None-aware wrapper of it.
TraceFuncs == {[name |-> "subtract", onNone |-> o] : o \in {"raise", "None"}}

\* Border collections: the image and sub borders mark the first pixel or
\* the first two, with one degree and the default centre for both.
BorderArgs ==
    {BorderCollection(ImageGridBorder(i, deg, <<0, 0>>),
                      ImageGridBorder(j, deg, <<0, 0>>)) :
        i \in {<<0>>, <<0, 1>>}, j \in {<<0>>, <<0, 1>>}, deg \in {0, 3}}

NoError == [exc |-> "", by |-> ""]

NoCall == Arguments(None, None, None)

----------------------------------------------------------------------------
(* The grid-collection specification: a collection is constructed; then    *)
(* either its deflections are computed with apply_function and it is       *)
(* traced with map_function, or it is relocated by a border collection.    *)
(* An exception ends the run.                                              *)

Init ==
    /\ grids = NoCollection
    /\ deflections = NoCollection
    /\ traced = NoCollection
    /\ relocated = NoCollection
    /\ raised = NoError
    /\ noneCalls = {}
    /\ call = NoCall
    /\ input = <<>>
    /\ output = <<>>
    /\ pc = "idle"

\* LensingGrids.__init__(self, image, sub, blurring): no parameter has a
\* default, so a call that leaves one out raises TypeError.
Construct(image, sub, blurring) ==
    /\ grids = NoCollection
    /\ raised = NoError
    /\ call' = Arguments(image, sub, blurring)
    /\ IF Omitted \in {sub, blurring}
       THEN /\ raised' = [exc |-> "TypeError", by |-> "__init__"]
            /\ UNCHANGED grids
       ELSE /\ grids' = LensingGrids(image, sub, blurring)
            /\ UNCHANGED raised
    /\ UNCHANGED <<deflections, traced, relocated, noneCalls>>
    /\ UNCHANGED funVars

\* deflections = grids.apply_function(func)
ApplyFunction(func) ==
    /\ IsCollection(grids)
    /\ deflections = NoCollection
    /\ relocated = NoCollection
    /\ raised = NoError
    /\ \E r \in {apply_function(grids, func)} :
          IF IsRaise(r.image)
          THEN /\ raised' = [exc |-> r.image.cls, by |-> "apply_function"]
               /\ UNCHANGED deflections
          ELSE /\ deflections' = r
               /\ UNCHANGED raised
    /\ noneCalls' = noneCalls \cup
          {<<"apply_function", t>> : t \in apply_function_none_calls(grids, func)}
    /\ UNCHANGED <<grids, traced, relocated, call>>
    /\ UNCHANGED funVars

\* traced = grids.map_function(func, deflections)
MapFunction(func) ==
    /\ IsCollection(deflections)
    /\ traced = NoCollection
    /\ raised = NoError
    /\ \E r \in {map_function(grids, func, deflections)} :
          IF IsRaise(r.image)
          THEN /\ raised' = [exc |-> r.image.cls, by |-> "map_function"]
               /\ UNCHANGED traced
          ELSE /\ traced' = r
               /\ UNCHANGED raised
    /\ noneCalls' = noneCalls \cup
          {<<"map_function", t>> :
              t \in map_function_none_calls(grids, func, deflections)}
    /\ UNCHANGED <<grids, deflections, relocated, call>>
    /\ UNCHANGED funVars

\* relocated = borders.relocated_grids_from_grids(grids)
Relocate(borders) ==
    /\ IsCollection(grids)
    /\ deflections = NoCollection
    /\ relocated = NoCollection
    /\ raised = NoError
    /\ ExactForCollection(borders, grids)
    /\ \E r \in {relocated_grids_from_grids(borders, grids)} :
          IF IsRaise(r.image)
          THEN /\ raised' = [exc |-> r.image.cls, by |-> "relocated_grids_from_grids"]
               /\ UNCHANGED relocated
          ELSE /\ relocated' = r
               /\ UNCHANGED raised
    /\ input' = borders
    /\ UNCHANGED <<grids, deflections, traced, noneCalls, call>>
    /\ UNCHANGED <<output, pc>>

Next ==
    \/ \E image \in ImageArgs, sub \in SubArgs, blurring \in BlurringArgs :
          Construct(image, sub, blurring)
    \/ \E func \in DeflectionFuncs : ApplyFunction(func)
    \/ \E func \in TraceFuncs : MapFunction(func)
    \/ \E borders \in BorderArgs : Relocate(borders)

Spec == Init /\ [][Next]_vars

----------------------------------------------------------------------------
(* Properties of the grid-collection specification.                        *)

ImageOnly(c) == IsCollection(c) /\ c.sub = None /\ c.blurring = None

\* C1: from a collection that holds only an image grid, computing the
\* deflections and then the traced grids raises no error, hands no absent
\* tier to the function, and gives collections whose sub and blurring are
\* absent (None, not an empty or placeholder grid).
C1_AbsencePropagation ==
    ImageOnly(grids) =>
        /\ raised.by \notin {"apply_function", "map_function"}
        /\ noneCalls = {}
        /\ IsCollection(deflections) => ImageOnly(deflections)
        /\ IsCollection(traced) => ImageOnly(traced)

\* C2: a tier present in the input of apply_function, of map_function or
\* of relocated_grids_from_grids is present in the collection it returns.
C2_NoTierDropped ==
    \A t \in Tiers :
        /\ (IsCollection(deflections) /\ IsGrid(grids[t])) => IsGrid(deflections[t])
        /\ (IsCollection(traced) /\ IsGrid(grids[t])) => IsGrid(traced[t])
        /\ (IsCollection(relocated) /\ IsGrid(grids[t])) => IsGrid(relocated[t])

\* An argument that stands for no grid: left out of the call, or None.
IsAbsentArgument(v) == v \in {Omitted, None}

\* The calls C3 is about: the image grid alone, or all three grids.
ImageAloneCall ==
    IsGrid(call.image) /\ IsAbsentArgument(call.sub) /\ IsAbsentArgument(call.blurring)

AllThreeCall == IsGrid(call.image) /\ IsGrid(call.sub) /\ IsGrid(call.blurring)

\* C3: a collection constructed from the image grid alone (sub and
\* blurring left out of the call, or given as None) is constructed without
\* error and its sub and blurring accessors return None; a collection
\* constructed from three grids returns from each accessor the grid that
\* was passed for it.
C3_ConstructedAsPassed ==
    (call # NoCall /\ (ImageAloneCall \/ AllThreeCall)) =>
        /\ raised.by # "__init__"
        /\ IsCollection(grids)
        /\ grids.image = call.image
        /\ \A t \in {"sub", "blurring"} :
              grids[t] = IF IsAbsentArgument(call[t]) THEN None ELSE call[t]

\* C4: tracing a collection against its deflection collection gives a
\* collection in which every present tier is the original minus the
\* deflection of the same tier, point by point, in the same length and
\* order.
C4_TracePointwise ==
    (IsCollection(deflections) /\ (IsCollection(traced) \/ raised.by = "map_function")) =>
        /\ IsCollection(traced)
        /\ \A t \in Tiers :
              IsGrid(grids[t]) =>
                  /\ Len(traced[t].pts) = Len(grids[t].pts)
                  /\ \A i \in 1..Len(grids[t].pts) :
                        traced[t].pts[i] = VSub(grids[t].pts[i], deflections[t].pts[i])


----------------------------------------------------------------------------
(* The field specification: one evaluation of the deflections or of the    *)
(* intensities of a list of galaxies on one grid.                          *)

Profiles == {Sheet(1), Step(2)}

\* The profile lists one galaxy can own, the empty one included.
ProfileLists == UNION {[1..n -> Profiles] : n \in 0..MaxProfiles}

\* The galaxy lists of one evaluation, the empty one included.
GalaxyLists == UNION {[1..n -> ProfileLists] : n \in 0..MaxGalaxies}

\* One-point grids and one two-point grid, as an image grid and a sub-grid.
FieldArrays == {<<c>> : c \in Coords} \cup {<< <<2, 0>>, <<0, -4>> >>}

FieldGrids == {ImageGrid(arr) : arr \in FieldArrays}
                  \cup {SubGrid(arr, 1) : arr \in FieldArrays}

\* grid = ImageGrid(arr) or SubGrid(arr, mask, 1): the grid of the evaluation
FieldGrid(grid) ==
    /\ pc = "idle"
    /\ input' = [op |-> "", galaxies |-> <<>>, grid |-> grid]
    /\ pc' = "ready"
    /\ UNCHANGED output
    /\ UNCHANGED collVars

\* deflections = func(grid), func the deflection function of the galaxies
DeflectionsOnGrid(galaxies) ==
    /\ pc = "ready"
    /\ input' = [op |-> "deflections", galaxies |-> galaxies, grid |-> input.grid]
    /\ output' = CallFunc([galaxies |-> galaxies, onNone |-> "raise"], input.grid)
    /\ pc' = "done"
    /\ UNCHANGED collVars

\* intensities = grid.intensities_via_grid(galaxies)
IntensitiesViaGrid(galaxies) ==
    /\ pc = "ready"
    /\ input' = [op |-> "intensities", galaxies |-> galaxies, grid |-> input.grid]
    /\ output' = [input.grid EXCEPT
                      !.pts = intensities_via_grid(galaxies, input.grid.pts)]
    /\ pc' = "done"
    /\ UNCHANGED collVars

NextField ==
    \/ \E grid \in FieldGrids : FieldGrid(grid)
    \/ \E galaxies \in GalaxyLists : DeflectionsOnGrid(galaxies)
    \/ \E galaxies \in GalaxyLists : IntensitiesViaGrid(galaxies)

SpecField == Init /\ [][NextField]_vars

----------------------------------------------------------------------------
(* Properties of the field specification.                                  *)

RECURSIVE Flatten(_)
\* Every profile of every galaxy, in one list.
Flatten(galaxies) ==
    IF galaxies = <<>> THEN <<>>
    ELSE Head(galaxies) \o Flatten(Tail(galaxies))

\* The field of one profile alone on a grid.
FieldOf(profile, arr) == deflections_on_grid(<< <<profile>> >>, arr)

Deflected == pc = "done" /\ input.op = "deflections"

\* C5: the deflection field of two mass profiles A and B is, at every
\* point of the grid, the field of A alone plus the field of B alone.
C5_Superposition ==
    (Deflected /\ Len(Flatten(input.galaxies)) = 2) =>
        /\ Len(output.pts) = Len(input.grid.pts)
        /\ \A i \in 1..Len(input.grid.pts) :
              output.pts[i] =
                  VAdd(FieldOf(Flatten(input.galaxies)[1], input.grid.pts)[i],
                       FieldOf(Flatten(input.galaxies)[2], input.grid.pts)[i])

C5_Witness_TwoProfiles ==
    /\ Deflected
    /\ input.galaxies = << <<Sheet(1), Step(2)>> >>
    /\ input.grid.pts = << <<2, 0>>, <<0, -4>> >>
    /\ output.pts = << <<4, 0>>, <<0, -6>> >>

\* How often a profile occurs among the galaxies.
Copies(galaxies, profile) ==
    Cardinality({gj \in (1..Len(galaxies)) \X (1..MaxProfiles) :
                    /\ gj[2] <= Len(galaxies[gj[1]])
                    /\ galaxies[gj[1]][gj[2]] = profile})

Times(k, v) == <<k * v[1], k * v[2]>>

\* C6: the deflection at a point is fixed by how often each profile
\* occurs, whatever the order and the grouping into galaxies: it is the
\* sum over the profiles of (number of copies) times the profile's field.
C6_MultisetOnly ==
    Deflected =>
        \A i \in 1..Len(input.grid.pts) :
            output.pts[i] =
                VAdd(Times(Copies(input.galaxies, Sheet(1)),
                           ProfileDeflection(Sheet(1), input.grid.pts[i])),
                     Times(Copies(input.galaxies, Step(2)),
                           ProfileDeflection(Step(2), input.grid.pts[i])))

C6_Witness_CopiesAsGalaxies ==
    /\ Deflected
    /\ Len(input.galaxies) = MaxGalaxies
    /\ \A g \in 1..Len(input.galaxies) : input.galaxies[g] = <<Step(2)>>
    /\ input.grid.pts = << <<0, -4>> >>
    /\ output.pts = << Times(MaxGalaxies, <<0, -2>>) >>

NoProfiles(galaxies) == Flatten(galaxies) = <<>>

\* C7: with no galaxy, or with galaxies that own no profile, the
\* deflections and the intensities are returned without error as zeros,
\* one entry per grid point.
C7_ZeroField ==
    (pc = "done" /\ NoProfiles(input.galaxies)) =>
        /\ IsGrid(output)
        /\ Len(output.pts) = Len(input.grid.pts)
        /\ \A i \in 1..Len(output.pts) :
              IF input.op = "deflections"
              THEN output.pts[i] = <<0, 0>>
              ELSE output.pts[i] = 0

C7_Witness_NoGalaxies ==
    /\ Deflected
    /\ input.galaxies = <<>>
    /\ Len(input.grid.pts) = 2
    /\ output.pts = << <<0, 0>>, <<0, 0>> >>


----------------------------------------------------------------------------
(* SubGrid.sub_data_to_image.                                              *)

\* self.sub_grid_length = int(sub_grid_size ** 2.0)
sub_grid_length(sub_grid_size) == sub_grid_size * sub_grid_size

\* self.sub_grid_fraction = 1.0 / self.sub_grid_length
sub_grid_fraction(sub_grid_size) == Q(1, sub_grid_length(sub_grid_size))

\* A reshape that fills the rows column by column.
reshape_strided(data, columns) ==
    [r \in 1..(Len(data) \div columns) |->
        [c \in 1..columns |-> data[(c - 1) * (Len(data) \div columns) + r]]]

\* data.reshape(-1, columns): row r holds the next `columns` values.
reshape(data, columns) ==
    [r \in 1..(Len(data) \div columns) |->
        [c \in 1..columns |-> data[(r - 1) * columns + c]]]

\* array.sum(axis=1): the sum of each row.
sum_axis_1(rows) == [r \in 1..Len(rows) |-> FSum(rows[r])]

\* return np.multiply(self.sub_grid_fraction,
\*                    data.reshape(-1, self.sub_grid_length).sum(axis=1))
\* reshape raises ValueError for a length that is no multiple of
\* sub_grid_length.
sub_data_to_image(self, data) ==
    IF Len(data) % sub_grid_length(self.sub_grid_size) # 0
    THEN Raise("ValueError")
    ELSE ndarray([i \in 1..(Len(data) \div sub_grid_length(self.sub_grid_size)) |->
                     FMul(sub_grid_fraction(self.sub_grid_size),
                          sum_axis_1(reshape(AsValues(data),
                                             sub_grid_length(self.sub_grid_size)))[i])])

----------------------------------------------------------------------------
(* The pooling specification: one call of sub_data_to_image.  The          *)
(* operation is linear in the data, so the data are zero but for two       *)
(* entries.                                                                *)

SubGridSizes == 1..MaxSubGridSize

DataLengths(sub_grid_size) == 1..(MaxPixels * sub_grid_length(sub_grid_size))

DataOfLength(n) ==
    {[j \in 1..n |-> IF j = a THEN 1 ELSE IF j = b THEN v ELSE 0] :
        a \in 1..n, b \in 1..n, v \in {0, 3}}

SubDataToImage(sub_grid_size, data) ==
    /\ pc = "idle"
    /\ input' = [sub_grid_size |-> sub_grid_size, data |-> data]
    /\ output' = sub_data_to_image(SubGrid(<<>>, sub_grid_size), data)
    /\ pc' = "done"
    /\ UNCHANGED collVars

NextPooling ==
    \E sub_grid_size \in SubGridSizes :
        \E n \in DataLengths(sub_grid_size) :
            \E data \in DataOfLength(n) : SubDataToImage(sub_grid_size, data)

SpecPooling == Init /\ [][NextPooling]_vars

----------------------------------------------------------------------------
(* Properties of the pooling specification.                                *)

RECURSIVE SumFromTo(_, _, _)
\* data[lo] + ... + data[hi]
SumFromTo(data, lo, hi) ==
    IF lo > hi THEN 0 ELSE data[lo] + SumFromTo(data, lo + 1, hi)

\* C8: for data of length N * S (S the square of sub_grid_size),
\* sub_data_to_image returns N values, the i-th (from 0) the mean of
\* data[i*S] .. data[i*S + S - 1].
C8_PooledMean ==
    (pc = "done" /\ Len(input.data) % sub_grid_length(input.sub_grid_size) = 0) =>
        /\ output.cls = "ndarray"
        /\ Len(output.pts) * sub_grid_length(input.sub_grid_size) = Len(input.data)
        /\ \A i \in 0..(Len(output.pts) - 1) :
              output.pts[i + 1] =
                  Q(SumFromTo(input.data,
                              i * sub_grid_length(input.sub_grid_size) + 1,
                              i * sub_grid_length(input.sub_grid_size)
                                  + sub_grid_length(input.sub_grid_size)),
                    sub_grid_length(input.sub_grid_size))

C8_Witness_TwoPixels ==
    /\ pc = "done"
    /\ input.sub_grid_size = 2
    /\ input.data = <<0, 1, 0, 0, 3, 0, 0, 0>>
    /\ output.pts = <<Q(1, 4), Q(3, 4)>>

----------------------------------------------------------------------------
(* Grids from a mask.  A mask is a boolean array (TRUE: masked) with a     *)
(* pixel scale; rows and columns are counted from 0 at the top-left.  The  *)
(* mask's own methods are collaborators of the grid module: their          *)
(* contract is the specification's sections 3 and 4.1 and the SubGrid      *)
(* docstring (x grows to the right, y grows upwards, the array's centre    *)
(* is the origin).                                                         *)

Mask(array, pixel_scale) == [array |-> array, pixel_scale |-> pixel_scale]

Rows(mask) == Len(mask.array)

Cols(mask) == Len(mask.array[1])

IsUnmasked(mask, r, c) == ~mask.array[r + 1][c + 1]

RECURSIVE UnmaskedFromColumnMajor(_, _)
\* A traversal that walks down the columns, left to right.
UnmaskedFromColumnMajor(mask, k) ==
    IF k >= Rows(mask) * Cols(mask) THEN <<>>
    ELSE (IF IsUnmasked(mask, k % Rows(mask), k \div Rows(mask))
          THEN << <<k % Rows(mask), k \div Rows(mask)>> >> ELSE <<>>)
             \o UnmaskedFromColumnMajor(mask, k + 1)

RECURSIVE UnmaskedFrom(_, _)
\* The unmasked pixels <<row, column>> from the k-th cell on, the cells
\* counted along the rows, top row first.
UnmaskedFrom(mask, k) ==
    IF k >= Rows(mask) * Cols(mask) THEN <<>>
    ELSE (IF IsUnmasked(mask, k \div Cols(mask), k % Cols(mask))
          THEN << <<k \div Cols(mask), k % Cols(mask)>> >> ELSE <<>>)
             \o UnmaskedFrom(mask, k + 1)

\* The centre of pixel px = <<row, column>>, in arc seconds.
PixelCentre(mask, px) ==
    <<(mask.pixel_scale \div 2) * (2 * px[2] - (Cols(mask) - 1)),
      (mask.pixel_scale \div 2) * ((Rows(mask) - 1) - 2 * px[1])>>

\* mask.masked_image_grid
masked_image_grid(mask) ==
    [i \in 1..Len(UnmaskedFrom(mask, 0)) |->
        PixelCentre(mask, UnmaskedFrom(mask, 0)[i])]

\* A sub-lattice laid out from the pixel's centre instead of its corner.
SubPointFromCentre(pixel_scale, sub_grid_size, centre, a, b) ==
    <<centre[1] + (b + 1) * (pixel_scale \div (sub_grid_size + 1)),
      centre[2] - (a + 1) * (pixel_scale \div (sub_grid_size + 1))>>

\* Sub-pixel (a, b), sub-row a and sub-column b from the pixel's top-left
\* corner: the lattice divides the pixel into sub_grid_size + 1 intervals.
SubPoint(pixel_scale, sub_grid_size, centre, a, b) ==
    <<centre[1] - (pixel_scale \div 2)
          + (b + 1) * (pixel_scale \div (sub_grid_size + 1)),
      centre[2] + (pixel_scale \div 2)
          - (a + 1) * (pixel_scale \div (sub_grid_size + 1))>>

\* imaging_util.sub_grid_masked_from_mask_pixel_scale_and_sub_grid_size:
\* the sub-points of each unmasked pixel, pixel after pixel.
sub_grid_masked(mask, sub_grid_size) ==
    [j \in 1..(Len(UnmaskedFrom(mask, 0)) * sub_grid_length(sub_grid_size)) |->
        SubPoint(mask.pixel_scale, sub_grid_size,
                 PixelCentre(mask,
                     UnmaskedFrom(mask, 0)[(j - 1) \div sub_grid_length(sub_grid_size) + 1]),
                 ((j - 1) % sub_grid_length(sub_grid_size)) \div sub_grid_size,
                 ((j - 1) % sub_grid_length(sub_grid_size)) % sub_grid_size)]

\* A masked pixel within the kernel's reach of an unmasked pixel.
InBlurringRegion(mask, psf_shape, r, c) ==
    /\ ~IsUnmasked(mask, r, c)
    /\ \E r2 \in 0..(Rows(mask) - 1), c2 \in 0..(Cols(mask) - 1) :
          /\ IsUnmasked(mask, r2, c2)
          /\ Abs(r - r2) <= (psf_shape[1] - 1) \div 2
          /\ Abs(c - c2) <= (psf_shape[2] - 1) \div 2

\* mask.blurring_mask_for_psf_shape(psf_shape): unmasked exactly on the
\* blurring region.
blurring_mask_for_psf_shape(mask, psf_shape) ==
    Mask([r \in 1..Rows(mask) |->
             [c \in 1..Cols(mask) |-> ~InBlurringRegion(mask, psf_shape, r - 1, c - 1)]],
         mask.pixel_scale)

\* image_grid = ImageGrid(mask.masked_image_grid)
\* sub_grid = SubGrid.grid_from_mask_and_sub_grid_size(mask, sub_grid_size)
\* blurring_grid = ImageGrid.blurring_grid_from_mask_and_psf_shape(mask, blurring_shape)
\* return LensingGrids(image_grid, sub_grid, blurring_grid)
from_mask_sub_grid_size_and_blurring_shape(mask, sub_grid_size, blurring_shape) ==
    LensingGrids(
        ImageGrid(masked_image_grid(mask)),
        SubGrid(sub_grid_masked(mask, sub_grid_size), sub_grid_size),
        ImageGrid(masked_image_grid(blurring_mask_for_psf_shape(mask, blurring_shape))))

----------------------------------------------------------------------------
(* The mask specification: a collection is built from a mask, and its      *)
(* deflections are computed.                                               *)

RECURSIVE Factorial(_)
Factorial(n) == IF n <= 1 THEN 1 ELSE n * Factorial(n - 1)

\* Pixel scales for which every pixel centre and every sub-point of a
\* sub-grid of size 1..MaxSubGridSize is a whole number.
PixelScales ==
    {2 * Factorial(MaxSubGridSize + 1), 6 * Factorial(MaxSubGridSize + 1)}

Masks ==
    UNION {{Mask(array, pixel_scale) :
               array \in [1..r -> [1..c -> BOOLEAN]], pixel_scale \in PixelScales} :
           r \in 1..MaxShape, c \in 1..MaxShape}

BlurringShapes == {<<1, 1>>, <<3, 3>>}

MaskFuncs ==
    {[galaxies |-> g, onNone |-> "raise"] :
        g \in {<< <<Sheet(1)>> >>, << <<Step(1)>>, <<Sheet(2), Step(3)>> >>}}

NoFunc == [galaxies |-> <<>>, onNone |-> ""]

\* grids = LensingGrids.from_mask_sub_grid_size_and_blurring_shape(...)
FromMask(mask, sub_grid_size, blurring_shape) ==
    /\ pc = "idle"
    /\ input' = [mask |-> mask, sub_grid_size |-> sub_grid_size,
                 blurring_shape |-> blurring_shape, func |-> NoFunc]
    /\ output' = [grids |-> from_mask_sub_grid_size_and_blurring_shape(
                                mask, sub_grid_size, blurring_shape),
                  deflections |-> NoCollection]
    /\ pc' = "built"
    /\ UNCHANGED collVars

\* deflections = grids.apply_function(func)
DeflectFromMask(func) ==
    /\ pc = "built"
    /\ input' = [input EXCEPT !.func = func]
    /\ output' = [output EXCEPT !.deflections = apply_function(output.grids, func)]
    /\ pc' = "done"
    /\ UNCHANGED collVars

NextMask ==
    \/ \E mask \in Masks, sub_grid_size \in SubGridSizes,
          blurring_shape \in BlurringShapes :
          FromMask(mask, sub_grid_size, blurring_shape)
    \/ \E func \in MaskFuncs : DeflectFromMask(func)

SpecMask == Init /\ [][NextMask]_vars

----------------------------------------------------------------------------
(* Properties of the mask specification.                                   *)

UnmaskedPixels(mask) ==
    {px \in (0..(Rows(mask) - 1)) \X (0..(Cols(mask) - 1)) :
        IsUnmasked(mask, px[1], px[2])}

\* The place of an unmasked pixel among the unmasked pixels, counted from
\* 1 along the rows, top row first.
RowMajorRank(mask, px) ==
    Cardinality({q \in UnmaskedPixels(mask) :
                    q[1] < px[1] \/ (q[1] = px[1] /\ q[2] <= px[2])})

\* C9: the image grid built from a mask has one entry per unmasked pixel,
\* the entry of a pixel standing at the pixel's row-major rank, and the
\* deflection grid derived from it holds at that index the deflection at
\* that pixel.
C9_RowMajorOrder ==
    pc \in {"built", "done"} =>
        /\ Len(output.grids.image.pts) = Cardinality(UnmaskedPixels(input.mask))
        /\ \A px \in UnmaskedPixels(input.mask) :
              /\ output.grids.image.pts[RowMajorRank(input.mask, px)]
                     = PixelCentre(input.mask, px)
              /\ pc = "done" =>
                     output.deflections.image.pts[RowMajorRank(input.mask, px)]
                         = DeflectionAt(input.func.galaxies,
                                        PixelCentre(input.mask, px))

C9_Witness_AntiDiagonal ==
    /\ pc = "done"
    /\ input.mask.array = <<<<TRUE, FALSE>>, <<FALSE, TRUE>>>>
    /\ input.mask.pixel_scale = 2 * Factorial(MaxSubGridSize + 1)
    /\ output.grids.image.pts[1] = PixelCentre(input.mask, <<0, 1>>)
    /\ output.grids.image.pts[2] = PixelCentre(input.mask, <<1, 0>>)
    /\ output.grids.image.pts[1] # output.grids.image.pts[2]
    /\ output.deflections.image.pts[1] # output.deflections.image.pts[2]

RECURSIVE SumOfColumn(_, _, _, _)
\* pts[lo][k] + ... + pts[hi][k]
SumOfColumn(pts, k, lo, hi) ==
    IF lo > hi THEN 0 ELSE pts[lo][k] + SumOfColumn(pts, k, lo + 1, hi)

\* Point p lies strictly inside the pixel of the given centre.
InsidePixel(p, centre, pixel_scale) ==
    /\ 2 * Abs(p[1] - centre[1]) < pixel_scale
    /\ 2 * Abs(p[2] - centre[2]) < pixel_scale

\* C10: the image grid and the sub-grid built from one mask have the same
\* number of pixels, and the sub-points of sub-grid pixel i lie inside the
\* pixel of image_grid[i] with their mean at its centre; for sub-grid size
\* 1 the sub-point is the centre.
C10_IndexAligned ==
    pc \in {"built", "done"} =>
        /\ Len(output.grids.sub.pts)
               = Len(output.grids.image.pts) * sub_grid_length(input.sub_grid_size)
        /\ \A i \in 0..(Len(output.grids.image.pts) - 1) :
              /\ \A k \in 1..2 :
                    SumOfColumn(output.grids.sub.pts, k,
                                i * sub_grid_length(input.sub_grid_size) + 1,
                                (i + 1) * sub_grid_length(input.sub_grid_size))
                        = sub_grid_length(input.sub_grid_size)
                              * output.grids.image.pts[i + 1][k]
              /\ \A j \in 1..sub_grid_length(input.sub_grid_size) :
                    InsidePixel(
                        output.grids.sub.pts[i * sub_grid_length(input.sub_grid_size) + j],
                        output.grids.image.pts[i + 1], input.mask.pixel_scale)
        /\ input.sub_grid_size = 1 =>
               output.grids.sub.pts = output.grids.image.pts

C10_Witness_TwoPixelsSubGrid ==
    /\ pc = "built"
    /\ input.sub_grid_size = MaxSubGridSize
    /\ Len(output.grids.image.pts) = 2
    /\ Len(output.grids.sub.pts) = 2 * sub_grid_length(MaxSubGridSize)
    /\ output.grids.sub.pts[1] # output.grids.image.pts[1]

----------------------------------------------------------------------------
(* The border specification: one ImageGridBorder and one grid, to which    *)
(* grid_to_thetas, move_factors_from_grid or relocated_grid_from_grid is   *)
(* applied.  The border is chosen first, then the grid.                    *)

MaxGridLen == 2      \* most points of a grid handed to a border

BorderCoords ==
    {<<0, 0>>, <<1, 0>>, <<2, 0>>, <<1, 1>>, <<2, 1>>, <<3, 1>>,
     <<0, 2>>, <<-1, 1>>, <<-1, -1>>, <<1, -1>>}

\* Grids of two border points at different angles and a third point.
WideGrids ==
    {<< <<3, 0>>, <<0, 1>>, <<0, -1>> >>, << <<3, 0>>, <<0, 1>>, <<-4, 0>> >>,
     << <<1, 0>>, <<0, 2>>, <<0, -4>> >>}

BorderGrids ==
    UNION {[1..n -> BorderCoords] : n \in 1..MaxGridLen} \cup WideGrids

BorderIndices == {<<>>, <<0>>, <<1>>, <<0, 1>>, <<-1>>, <<2>>}

BorderDegrees == {0, 1, 3}

BorderCentres == {<<0, 0>>, <<1, 1>>}

Borders ==
    {ImageGridBorder(arr, deg, centre) :
        arr \in BorderIndices, deg \in BorderDegrees, centre \in BorderCentres}
    \cup {ImageGridBorderOfInt(<<>>, deg, centre) :
              deg \in BorderDegrees, centre \in BorderCentres}

\* What grid[self] and np.polyfit raise before anything is computed: an
\* index array that is not of integers (np.array([]) is float64) or an
\* index outside the grid IndexError, an empty integer border TypeError.
FitRaises(self, grid) ==
    IF self.dtype # "int64" THEN Raise("IndexError")
    ELSE IF \E j \in 1..Len(self.indices) :
          ~IndexInRange(self.indices[j], Len(grid))
    THEN Raise("IndexError")
    ELSE IF self.indices = <<>> THEN Raise("TypeError")
    ELSE None

\* self.move_factors_from_grid(grid), or the exception it raises.
MoveFactorsOrRaise(self, grid) ==
    IF FitRaises(self, grid) # None THEN FitRaises(self, grid)
    ELSE ndarray(move_factors_from_grid(self, grid))

\* self.relocated_grid_from_grid(grid), or the exception it raises.
RelocatedOrRaise(self, grid) ==
    IF FitRaises(self, grid) # None THEN FitRaises(self, grid)
    ELSE ndarray(relocated_grid_from_grid(self, grid))

\* The grids whose angles about the centre are whole degrees.
ExactAngles(self, grid) ==
    \A i \in 1..Len(grid) :
        HasExactAngle(Shifted(self, grid[i])[2], Shifted(self, grid[i])[1])

BorderInput(self) ==
    /\ pc = "idle"
    /\ input' = [self |-> self, grid |-> <<>>]
    /\ pc' = "border"
    /\ UNCHANGED output
    /\ UNCHANGED collVars

GridInput(grid) ==
    /\ pc = "border"
    /\ input' = [input EXCEPT !.grid = AsFloats(grid)]
    /\ pc' = "ready"
    /\ UNCHANGED output
    /\ UNCHANGED collVars

\* thetas = self.grid_to_thetas(grid)
GridToThetas ==
    /\ pc = "ready"
    /\ ExactAngles(input.self, input.grid)
    /\ output' = [op |-> "grid_to_thetas",
                  value |-> ndarray(grid_to_thetas(input.self, input.grid))]
    /\ pc' = "done"
    /\ UNCHANGED input
    /\ UNCHANGED collVars

\* move_factors = self.move_factors_from_grid(grid)
MoveFactorsFromGrid ==
    /\ pc = "ready"
    /\ FitRaises(input.self, input.grid) # None
          \/ ExactFor(input.self, input.grid)
    /\ output' = [op |-> "move_factors_from_grid",
                  value |-> MoveFactorsOrRaise(input.self, input.grid)]
    /\ pc' = "done"
    /\ UNCHANGED input
    /\ UNCHANGED collVars

\* relocated = self.relocated_grid_from_grid(grid)
RelocatedGridFromGrid ==
    /\ pc = "ready"
    /\ FitRaises(input.self, input.grid) # None
          \/ ExactFor(input.self, input.grid)
    /\ output' = [op |-> "relocated_grid_from_grid",
                  value |-> RelocatedOrRaise(input.self, input.grid)]
    /\ pc' = "done"
    /\ UNCHANGED input
    /\ UNCHANGED collVars

NextBorder ==
    \/ \E self \in Borders : BorderInput(self)
    \/ \E grid \in BorderGrids : GridInput(grid)
    \/ GridToThetas
    \/ MoveFactorsFromGrid
    \/ RelocatedGridFromGrid

SpecBorder == Init /\ [][NextBorder]_vars

----------------------------------------------------------------------------
(* Properties of the border specification.                                 *)

\* The direction <<sign of cos, sign of sin>> of a whole-degree angle that
\* is a multiple of 45.
DirectionOf(theta) ==
    CASE theta = 0 -> <<1, 0>>
      [] theta = 45 -> <<1, 1>>
      [] theta = 90 -> <<0, 1>>
      [] theta = 135 -> <<-1, 1>>
      [] theta = 180 -> <<-1, 0>>
      [] theta = 225 -> <<-1, -1>>
      [] theta = 270 -> <<0, -1>>
      [] theta = 315 -> <<1, -1>>
      [] OTHER -> <<0, 0>>

\* Whether theta is the angle in [0, 360), counter-clockwise from +x, of
\* the offset <<dx, dy>>; the offset <<0, 0>> has angle 0 (atan2(0, 0) = 0).
IsAngleFromX(theta, dx, dy) ==
    /\ 0 <= theta /\ theta < 360
    /\ IF dx.n = 0 /\ dy.n = 0 THEN theta = 0
       ELSE DirectionOf(theta) = <<Sgn(dx.n), Sgn(dy.n)>>

ThetasDone == pc = "done" /\ output.op = "grid_to_thetas"

MoveFactorsDone ==
    pc = "done" /\ output.op = "move_factors_from_grid" /\ ~IsRaise(output.value)

\* Whether move_factor is min(1.0, ratio), for a ratio that is not nan.
IsMinWithOne(move_factor, ratio) ==
    /\ move_factor = One \/ move_factor = ratio
    /\ ~FGt(move_factor, One)
    /\ ~FGt(move_factor, ratio)

\* Whether the border points fix the boundary at angle theta to the squared
\* radius sq: a border point lies at theta, and every border point the fit
\* weighs there (all of them for a constant fit) has that squared radius.
BoundaryAt(self, grid, theta, sq) ==
    /\ \E j \in 1..Len(self.indices) :
          ThetaFromX(Shifted(self, Row(grid, self.indices[j]))) = theta
    /\ \A j \in 1..Len(self.indices) :
          \/ /\ self.polynomial_degree # 0
             /\ ThetaFromX(Shifted(self, Row(grid, self.indices[j]))) # theta
          \/ SquaredRadius(Shifted(self, Row(grid, self.indices[j]))) = sq

\* C12: every move factor of a point at a non-zero radius from the centre
\* is min(1.0, fitted radius at its angle / its radius), radii and angles
\* being taken about the border's centre; where the border fixes the
\* boundary radius at the point's angle, a point inside it gets exactly
\* 1.0 and a point at twice that radius gets 0.5.
C12_MoveFactorIsCappedRatio ==
    MoveFactorsDone =>
        /\ Len(output.value.pts) = Len(input.grid)
        /\ \A i \in 1..Len(input.grid) :
              /\ SquaredRadius(Shifted(input.self, input.grid[i])).n # 0
                 => IsMinWithOne(
                        output.value.pts[i],
                        FDiv(polyval(polynomial_fit_to_border(input.self, input.grid),
                                     ThetaFromX(Shifted(input.self, input.grid[i]))),
                             FSqrt(SquaredRadius(Shifted(input.self, input.grid[i])))))
              /\ \A j \in 1..Len(input.grid) :
                    /\ BoundaryAt(input.self, input.grid,
                                  ThetaFromX(Shifted(input.self, input.grid[i])),
                                  SquaredRadius(Shifted(input.self, input.grid[j])))
                    /\ SquaredRadius(Shifted(input.self, input.grid[j])).n > 0
                    => /\ FGt(SquaredRadius(Shifted(input.self, input.grid[j])),
                              SquaredRadius(Shifted(input.self, input.grid[i])))
                          => output.value.pts[i] = One
                       /\ SquaredRadius(Shifted(input.self, input.grid[i]))
                             = FMul(FromInt(4),
                                    SquaredRadius(Shifted(input.self, input.grid[j])))
                          => output.value.pts[i] = Q(1, 2)

\* About the centre (1, 1), with the border point (1, 0) at radius 1, the
\* point (1, -1) at radius 2 and the same angle got 0.5.
C12_Witness_TwiceTheRadius ==
    /\ MoveFactorsDone
    /\ input.self.centre = <<FromInt(1), FromInt(1)>>
    /\ input.self.indices = <<0>>
    /\ input.self.polynomial_degree = 3
    /\ input.grid = AsFloats(<< <<1, 0>>, <<1, -1>> >>)
    /\ output.value.pts = <<One, Q(1, 2)>>

\* C13: every point at radius 0 from the centre gets the move factor 1.0,
\* whatever the fitted polynomial is at its angle.
C13_ZeroRadiusFactorOne ==
    MoveFactorsDone =>
        \A i \in 1..Len(input.grid) :
            SquaredRadius(Shifted(input.self, input.grid[i])).n = 0
                => output.value.pts[i] = One

RelocatedDone ==
    /\ pc = "done"
    /\ output.op = "relocated_grid_from_grid"
    /\ ~IsRaise(output.value)

\* The fitted radius at the angle of point i, and the point's own radius.
FittedRadiusAt(self, grid, i) ==
    polyval(polynomial_fit_to_border(self, grid),
            ThetaFromX(Shifted(self, grid[i])))

RadiusAt(self, grid, i) == FSqrt(SquaredRadius(Shifted(self, grid[i])))

\* centre + (point - centre) * move_factor
ScaledAboutCentre(self, p, move_factor) ==
    <<FAdd(self.centre[1], FMul(Shifted(self, p)[1], move_factor)),
      FAdd(self.centre[2], FMul(Shifted(self, p)[2], move_factor))>>

\* C14: every relocated point is centre + (point - centre) * move_factor,
\* for every configured centre.
C14_ScalesOffsetFromCentre ==
    RelocatedDone =>
        \A i \in 1..Len(input.grid) :
            output.value.pts[i] =
                ScaledAboutCentre(input.self, input.grid[i],
                                  move_factors_from_grid(input.self, input.grid)[i])

\* C15: the relocated grid has the length of the input; entry i is the
\* input's point i times its own move factor, and is the input's point i
\* unchanged when that point lies inside the fitted boundary (its radius
\* is less than the fitted radius at its angle), wherever the border's
\* indices point in the grid.
C15_InsidePointsStay ==
    RelocatedDone =>
        /\ Len(output.value.pts) = Len(input.grid)
        /\ \A i \in 1..Len(input.grid) :
              /\ output.value.pts[i] =
                    <<FMul(input.grid[i][1],
                           move_factors_from_grid(input.self, input.grid)[i]),
                      FMul(input.grid[i][2],
                           move_factors_from_grid(input.self, input.grid)[i])>>
              /\ FGt(FittedRadiusAt(input.self, input.grid, i),
                     RadiusAt(input.self, input.grid, i))
                 => output.value.pts[i] = input.grid[i]

\* About the centre (1, 1), with the border point (3, 1) last in the grid,
\* the point (2, 1) inside the boundary stayed, and so did the border point.
C15_Witness_BorderLast ==
    /\ RelocatedDone
    /\ input.self.centre = <<FromInt(1), FromInt(1)>>
    /\ input.self.indices = <<1>>
    /\ input.grid = AsFloats(<< <<2, 1>>, <<3, 1>> >>)
    /\ FGt(FittedRadiusAt(input.self, input.grid, 1),
           RadiusAt(input.self, input.grid, 1))
    /\ output.value.pts = input.grid

\* C16: every point outside the fitted boundary (its radius exceeds the
\* fitted radius at its angle) is relocated onto it: the relocated point's
\* offset from the centre has the fitted radius as its length and the
\* direction of the original offset.
C16_OutsidePointsOntoBoundary ==
    RelocatedDone =>
        \A i \in 1..Len(input.grid) :
            FGt(RadiusAt(input.self, input.grid, i),
                FittedRadiusAt(input.self, input.grid, i))
            => /\ SquaredRadius(Shifted(input.self, output.value.pts[i]))
                     = FMul(FittedRadiusAt(input.self, input.grid, i),
                            FittedRadiusAt(input.self, input.grid, i))
               /\ FSub(FMul(Shifted(input.self, output.value.pts[i])[1],
                            Shifted(input.self, input.grid[i])[2]),
                       FMul(Shifted(input.self, output.value.pts[i])[2],
                            Shifted(input.self, input.grid[i])[1])).n = 0
               /\ FAdd(FMul(Shifted(input.self, output.value.pts[i])[1],
                            Shifted(input.self, input.grid[i])[1]),
                       FMul(Shifted(input.self, output.value.pts[i])[2],
                            Shifted(input.self, input.grid[i])[2])).n >= 0

\* C18: move_factors_from_grid and relocated_grid_from_grid, called on a
\* border of fewer than polynomial_degree + 1 border points, raise and
\* return no array.
C18_TooFewBorderPointsRaise ==
    /\ pc = "done"
    /\ output.op \in {"move_factors_from_grid", "relocated_grid_from_grid"}
    /\ Len(input.self.indices) < input.self.polynomial_degree + 1
    => IsRaise(output.value)

----------------------------------------------------------------------------
(* Properties of relocation in the grid-collection specification; input    *)
(* holds the border collection that relocated the grids.                   *)

\* The sub-grid relocated against the polynomial fitted to the image
\* grid's border points, angles and radii taken about the sub border's
\* centre.
SubAgainstImageFit(borders, c) ==
    np_multiply(AsFloats(c.sub.pts),
                MoveFactors(grid_to_thetas(borders.sub, AsFloats(c.sub.pts)),
                            grid_to_radii(borders.sub, AsFloats(c.sub.pts)),
                            polynomial_fit_to_border(borders.image,
                                                     AsFloats(c.image.pts))))

\* C17: in the collection relocated_grids_from_grids returns, every
\* sub-grid point is relocated against the polynomial fitted to the image
\* grid's border points.
C17_SubUsesImagePolynomial ==
    /\ IsCollection(relocated)
    /\ \A i \in 1..Len(grids.sub.pts) :
          PolyvalDefined(polynomial_fit_to_border(input.image, AsFloats(grids.image.pts)),
                         grid_to_thetas(input.sub, AsFloats(grids.sub.pts))[i])
    => relocated.sub.pts = SubAgainstImageFit(input, grids)

\* Which tiers of a collection (0 image, 1 sub, 2 blurring) are absent.
AbsentTiers(c) == {item \in 0..2 : GetItem(c, item) = None}

\* C19: map_function over a collection and a deflection collection whose
\* absent tiers differ never yields a traced collection.
C19_MismatchedPresenceRaises ==
    /\ IsCollection(deflections)
    /\ AbsentTiers(grids) # AbsentTiers(deflections)
    => traced = NoCollection

----------------------------------------------------------------------------
(* The heap specification: the same border operations, statement by        *)
(* statement, on arrays that live in a heap.  A frame is the heap (a       *)
(* sequence of objects, an object's id being its position) and the ids     *)
(* the names of the running code are bound to.  numpy functions return     *)
(* new arrays; an augmented or masked assignment writes into the array     *)
(* its target names.  The id 0 is None.                                    *)

Names ==
    {"self", "grid", "shifted_grid", "theta_from_x", "grid_thetas",
     "grid_radii", "border_grid", "border_thetas", "border_radii", "poly",
     "move_factors", "result", "image", "sub", "blurring", "deflections",
     "grids"}

\* No object, no name bound.
EmptyFrame == [heap |-> <<>>, at |-> [name \in Names |-> 0]]

\* The frame of a call method(self, grid).
Frame(self, grid) ==
    [heap |-> <<self, grid>>,
     at |-> [name \in Names |->
                IF name = "self" THEN 1 ELSE IF name = "grid" THEN 2 ELSE 0]]

\* The object a name is bound to.
Load(f, name) == f.heap[f.at[name]]

\* name = <a new array holding value>
New(f, name, value) ==
    [heap |-> Append(f.heap, value),
     at |-> [f.at EXCEPT ![name] = Len(f.heap) + 1]]

\* name[...] = value: the array name is bound to is overwritten in place.
Store(f, name, value) ==
    [heap |-> [f.heap EXCEPT ![f.at[name]] = value], at |-> f.at]

\* name = other: one more name for the same object.
Alias(f, name, other) ==
    [heap |-> f.heap, at |-> [f.at EXCEPT ![name] = f.at[other]]]

\* np.subtract(grid, self.centre, out=grid): the grid itself is shifted.
np_subtract_in_place(f, grid) ==
    Alias(Store(f, grid,
                [i \in 1..Len(Load(f, grid)) |->
                    Shifted(Load(f, "self"), Load(f, grid)[i])]),
          "shifted_grid", grid)

\* shifted_grid = np.subtract(grid, self.centre)
np_subtract_centre(f, grid) ==
    New(f, "shifted_grid",
        [i \in 1..Len(Load(f, grid)) |->
            Shifted(Load(f, "self"), Load(f, grid)[i])])

\* theta_from_x = np.degrees(np.arctan2(shifted_grid[:, 1], shifted_grid[:, 0]))
np_degrees_arctan2(f) ==
    New(f, "theta_from_x",
        [i \in 1..Len(Load(f, "shifted_grid")) |->
            Arctan2Degrees(Load(f, "shifted_grid")[i][2],
                           Load(f, "shifted_grid")[i][1])])

\* theta_from_x[theta_from_x < 0.0] += 360.
add_360_where_negative(f) ==
    Store(f, "theta_from_x",
          [i \in 1..Len(Load(f, "theta_from_x")) |->
              FromX(Load(f, "theta_from_x")[i])])

\* out = self.grid_to_thetas(grid)
heap_grid_to_thetas(f, grid, out) ==
    Alias(add_360_where_negative(np_degrees_arctan2(np_subtract_centre(f, grid))),
          out, "theta_from_x")

\* out = self.grid_to_radii(grid)
heap_grid_to_radii(f, grid, out) ==
    New(f, out, grid_to_radii(Load(f, "self"), Load(f, grid)))

\* border_grid = grid[self]: indexing by an array copies the rows.
index_by_self(f) ==
    New(f, "border_grid", BorderGrid(Load(f, "self"), Load(f, "grid")))

\* poly = np.polyfit(border_thetas, border_radii, self.polynomial_degree)
np_polyfit(f) ==
    New(f, "poly",
        polyfit(Load(f, "border_thetas"), Load(f, "border_radii"),
                Load(f, "self").polynomial_degree))

\* poly = self.polynomial_fit_to_border(grid)
heap_polynomial_fit_to_border(f) ==
    np_polyfit(
        heap_grid_to_radii(
            heap_grid_to_thetas(index_by_self(f), "border_grid", "border_thetas"),
            "border_grid", "border_radii"))

\* move_factors = np.divide(np.polyval(poly, grid_thetas), grid_radii)
np_divide_polyval(f) ==
    New(f, "move_factors",
        [i \in 1..Len(Load(f, "grid_thetas")) |->
            FDiv(polyval(Load(f, "poly"), Load(f, "grid_thetas")[i]),
                 Load(f, "grid_radii")[i])])

\* move_factors[move_factors > 1.0] = 1.0
set_one_where_greater(f) ==
    Store(f, "move_factors",
          [i \in 1..Len(Load(f, "move_factors")) |->
              CapAtOne(Load(f, "move_factors")[i])])

\* return move_factors, at the end of self.move_factors_from_grid(grid)
heap_move_factors_from_grid(f) ==
    set_one_where_greater(
        np_divide_polyval(
            heap_polynomial_fit_to_border(
                heap_grid_to_radii(
                    heap_grid_to_thetas(f, "grid", "grid_thetas"),
                    "grid", "grid_radii"))))

\* return np.multiply(grid, move_factors[:, None])
np_multiply_grid(f) ==
    New(f, "result", np_multiply(Load(f, "grid"), Load(f, "move_factors")))

heap_relocated_grid_from_grid(f) == np_multiply_grid(heap_move_factors_from_grid(f))

\* The frame at the return of the method op, result bound to what it returns.
Returning(op, f) ==
    IF op = "grid_to_thetas" THEN heap_grid_to_thetas(f, "grid", "result")
    ELSE IF op = "move_factors_from_grid"
    THEN Alias(heap_move_factors_from_grid(f), "result", "move_factors")
    ELSE heap_relocated_grid_from_grid(f)

\* The object with an id; the id 0 is None.
Deref(f, id) == IF id = 0 THEN None ELSE f.heap[id]

\* name = value, for a value a caller's function returned or a caller
\* passed: a new object, or None.
Bound(f, name, value) ==
    IF value = None THEN [heap |-> f.heap, at |-> [f.at EXCEPT ![name] = 0]]
    ELSE New(f, name, value)

\* out = LensingGrids(image, sub, blurring): a new object that refers to
\* the three it is given.
new_LensingGrids(f, out) ==
    New(f, out, [image |-> f.at["image"], sub |-> f.at["sub"],
                 blurring |-> f.at["blurring"]])

\* The heap in which a caller holds the collection c as self.
CollectionFrame(c) ==
    new_LensingGrids(
        Bound(Bound(Bound(EmptyFrame, "image", c.image),
                    "sub", c.sub),
              "blurring", c.blurring),
        "self")

\* out = func(self[item])
func_of_tier(f, func, item, out) ==
    Bound(f, out, CallFunc(func, Deref(f, GetItem(Load(f, "self"), item))))

\* if self.blurring is not None:
\*     return LensingGrids(func(self.image), func(self.sub), func(self.blurring))
\* else:
\*     return LensingGrids(func(self.image), func(self.sub), None)
heap_apply_function(f, func) ==
    new_LensingGrids(
        IF GetItem(Load(f, "self"), 2) # 0
        THEN func_of_tier(func_of_tier(func_of_tier(f, func, 0, "image"),
                                       func, 1, "sub"),
                          func, 2, "blurring")
        ELSE Bound(func_of_tier(func_of_tier(f, func, 0, "image"), func, 1, "sub"),
                   "blurring", None),
        "result")

\* out = func(self[item], deflections[item]), one step of zip(self, *arg_lists)
func_of_pair(f, func, item, out) ==
    Bound(f, out, CallFunc2(func, Deref(f, GetItem(Load(f, "self"), item)),
                            Deref(f, GetItem(Load(f, "deflections"), item))))

\* return LensingGrids(*[func(*args) for args in zip(self, *arg_lists)])
heap_map_function(f, func) ==
    new_LensingGrids(
        func_of_pair(func_of_pair(func_of_pair(f, func, 0, "image"),
                                  func, 1, "sub"),
                     func, 2, "blurring"),
        "result")

\* out = BorderCollection(image, sub)
new_BorderCollection(f, out) ==
    New(f, out, [image |-> f.at["image"], sub |-> f.at["sub"]])

\* The heap in which a caller holds the collection c as grids and the
\* border collection as self.
BorderCollectionFrame(borders, c) ==
    new_BorderCollection(
        New(New(new_LensingGrids(
                    Bound(New(New(EmptyFrame, "image", AsFloats(c.image.pts)),
                              "sub", AsFloats(c.sub.pts)),
                          "blurring", c.blurring),
                    "grids"),
                "image", borders.image),
            "sub", borders.sub),
        "self")

\* The frame of self[item].relocated_grid_from_grid(grids[item]).
Called(f, item) ==
    [heap |-> f.heap,
     at |-> [name \in Names |->
                IF name = "self" THEN GetItem(Load(f, "self"), item)
                ELSE IF name = "grid" THEN GetItem(Load(f, "grids"), item)
                ELSE 0]]

\* out = <what the call that ended in frame g returned>
Returned_to(f, g, out) ==
    [heap |-> g.heap, at |-> [f.at EXCEPT ![out] = g.at["result"]]]

relocated_tier(f, item, out) ==
    Returned_to(f, heap_relocated_grid_from_grid(Called(f, item)), out)

\* return LensingGrids(image=self.image.relocated_grid_from_grid(grids.image),
\*                     sub=self.sub.relocated_grid_from_grid(grids.sub),
\*                     blurring=None)
heap_relocated_grids_from_grids(f) ==
    new_LensingGrids(
        Bound(relocated_tier(relocated_tier(f, 0, "image"), 1, "sub"),
              "blurring", None),
        "result")

BorderOps == {"grid_to_thetas", "move_factors_from_grid", "relocated_grid_from_grid"}

\* One border method runs on the heap that holds the border and the grid.
RunOnHeap(op) ==
    /\ pc = "ready"
    /\ IF op = "grid_to_thetas" THEN ExactAngles(input.self, input.grid)
       ELSE FitRaises(input.self, input.grid) = None
               /\ ExactFor(input.self, input.grid)
    /\ \E f \in {Returning(op, Frame(input.self, input.grid))} :
          output' = [op |-> op, frame |-> f]
    /\ pc' = "returned"
    /\ UNCHANGED input
    /\ UNCHANGED collVars

\* A caller holds a collection.
CollectionInput(image, sub, blurring) ==
    /\ pc = "idle"
    /\ input' = [frame |-> CollectionFrame(LensingGrids(image, sub, blurring)),
                 c |-> LensingGrids(image, sub, blurring),
                 d |-> NoCollection]
    /\ pc' = "collection"
    /\ UNCHANGED output
    /\ UNCHANGED collVars

\* deflections = grids.apply_function(func), for a func that returns.
ApplyOnHeap(func) ==
    /\ pc = "collection"
    /\ ~IsRaise(apply_function(input.c, func).image)
    /\ \E f \in {heap_apply_function(input.frame, func)} :
          output' = [op |-> "apply_function", frame |-> f]
    /\ input' = [input EXCEPT !.d = apply_function(input.c, func)]
    /\ pc' = "applied"
    /\ UNCHANGED collVars

\* traced = grids.map_function(func, deflections), for a func that returns.
MapOnHeap(func) ==
    /\ pc = "applied"
    /\ ~IsRaise(map_function(input.c, func, input.d).image)
    /\ \E f \in {Alias(output.frame, "deflections", "result")} :
          /\ input' = [input EXCEPT !.frame = f]
          /\ output' = [op |-> "map_function", frame |-> heap_map_function(f, func)]
    /\ pc' = "mapped"
    /\ UNCHANGED collVars

\* relocated = borders.relocated_grids_from_grids(grids), when it returns.
RelocateOnHeap(borders) ==
    /\ pc = "collection"
    /\ ~IsRaise(relocated_grids_from_grids(borders, input.c).image)
    /\ ExactForCollection(borders, input.c)
    /\ \E f \in {BorderCollectionFrame(borders, input.c)} :
          /\ input' = [input EXCEPT !.frame = f]
          /\ output' = [op |-> "relocated_grids_from_grids",
                        frame |-> heap_relocated_grids_from_grids(f)]
    /\ pc' = "relocated"
    /\ UNCHANGED collVars

NextHeap ==
    \/ \E self \in Borders : BorderInput(self)
    \/ \E grid \in BorderGrids : GridInput(grid)
    \/ \E op \in BorderOps : RunOnHeap(op)
    \/ \E image \in ImageArgs, sub \in SubArgs \ {Omitted},
          blurring \in BlurringArgs \ {Omitted} :
          CollectionInput(image, sub, blurring)
    \/ \E func \in DeflectionFuncs : ApplyOnHeap(func)
    \/ \E func \in TraceFuncs : MapOnHeap(func)
    \/ \E borders \in BorderArgs : RelocateOnHeap(borders)

SpecHeap == Init /\ [][NextHeap]_vars

----------------------------------------------------------------------------
(* Properties of the heap specification.                                   *)

\* The frame in which the operation that has returned was called.
Before ==
    IF output.op \in BorderOps THEN Frame(input.self, input.grid)
    ELSE input.frame

HasReturned == pc \in {"returned", "applied", "mapped", "relocated"}

\* C20: when apply_function, map_function, grid_to_thetas,
\* move_factors_from_grid, relocated_grid_from_grid or
\* relocated_grids_from_grids returns, every object the caller held before
\* the call (grids, collections, borders) holds the value it held then, and
\* the result is an object that did not exist before the call.
C20_InputsUnchanged ==
    HasReturned =>
        /\ Len(output.frame.heap) > Len(Before.heap)
        /\ \A id \in 1..Len(Before.heap) : output.frame.heap[id] = Before.heap[id]
        /\ output.frame.at["result"] > Len(Before.heap)

\* relocated_grid_from_grid returned after its augmented assignment added
\* 360 to an angle and its masked assignment set a move factor to 1.0,
\* and the point outside the boundary was moved.
C20_Witness_InPlaceStepsActed ==
    /\ pc = "returned"
    /\ output.op = "relocated_grid_from_grid"
    /\ input.self.centre = <<FromInt(1), FromInt(1)>>
    /\ Load(output.frame, "grid_thetas") = <<270, 270>>
    /\ Load(output.frame, "move_factors") = <<One, Q(3, 4)>>
    /\ FGt(FittedRadiusAt(input.self, input.grid, 1),
           RadiusAt(input.self, input.grid, 1))
    /\ Load(output.frame, "result") # input.grid

----------------------------------------------------------------------------
(* The sub-grid specification: SubGrid(array, mask, sub_grid_size) with    *)
(* its attributes as stored fields, and the arrays numpy derives from it.  *)
(* numpy creates every derived array of a subclass (a ufunc result, a      *)
(* slice, a view) through __array_finalize__(self, obj), obj being the     *)
(* array it was derived from.  An attribute never set is NoAttribute.      *)

MaxDerived == 2      \* longest chain of grids derived one from another

NoAttribute == -1

\* arr.view(cls), before __array_finalize__ has run.
View(cls, arr) ==
    [cls |-> cls, pts |-> arr, sub_grid_size |-> NoAttribute,
     sub_grid_length |-> NoAttribute, sub_grid_fraction |-> NaN]

\* isinstance(obj, SubGrid): a SubGrid or a SubGridMapper, its subclass.
IsSubGrid(obj) == obj.cls \in {"SubGrid", "SubGridMapper"}

\* A finalizer that carries sub_grid_size alone.
array_finalize_size_only(self, obj) ==
    IF IsSubGrid(obj)
    THEN [self EXCEPT !.sub_grid_size = obj.sub_grid_size]
    ELSE self

\* SubGrid.__array_finalize__(self, obj): reading the attributes of a
\* SubGrid whose __init__ has not run raises AttributeError, and no array
\* is derived.
array_finalize(self, obj) ==
    IF IsSubGrid(obj) /\ obj.sub_grid_size = NoAttribute
    THEN View("AttributeError", <<>>)
    ELSE IF IsSubGrid(obj)
    THEN [self EXCEPT !.sub_grid_size = obj.sub_grid_size,
                      !.sub_grid_length = obj.sub_grid_length,
                      !.sub_grid_fraction = obj.sub_grid_fraction]
    ELSE self

\* SubGrid.__init__(self, array, mask, sub_grid_size)
SubGrid_init(self, sub_grid_size) ==
    [self EXCEPT !.sub_grid_size = sub_grid_size,
                 !.sub_grid_length = sub_grid_length(sub_grid_size),
                 !.sub_grid_fraction = sub_grid_fraction(sub_grid_size)]

\* SubGrid(array, mask, sub_grid_size): ImageGrid.__new__ views the plain
\* array as a SubGrid (finalized from the plain array), __init__ follows.
NewSubGrid(array, sub_grid_size) ==
    SubGrid_init(array_finalize(View("SubGrid", array), View("ndarray", array)),
                 sub_grid_size)

\* np.multiply(grid, k): the result is wrapped in the class of grid and
\* finalized from grid.
np_multiply_by(grid, k) ==
    array_finalize(View(grid.cls, [i \in 1..Len(grid.pts) |->
                                      <<k * grid.pts[i][1], k * grid.pts[i][2]>>]),
                   grid)

\* np.subtract(grid, other) for two arrays of one length.
np_subtract_from(grid, other) ==
    array_finalize(View(grid.cls, [i \in 1..Len(grid.pts) |->
                                      VSub(grid.pts[i], other.pts[i])]),
                   grid)

\* grid[lo:hi], rows lo..hi-1 counted from 0.
slice(grid, lo, hi) ==
    array_finalize(View(grid.cls, SubSeq(grid.pts, lo + 1, hi)), grid)

\* The sub-grid is constructed.
ConstructSubGrid(array, sub_grid_size) ==
    /\ pc = "idle"
    /\ input' = NewSubGrid(array, sub_grid_size)
    /\ output' = <<NewSubGrid(array, sub_grid_size)>>
    /\ pc' = "grid"
    /\ UNCHANGED collVars

\* deflections = np.multiply(grid, k), of the grid derived last.
DeriveDeflections(k) ==
    /\ pc = "grid"
    /\ Len(output) <= MaxDerived
    /\ output' = Append(output, np_multiply_by(output[Len(output)], k))
    /\ UNCHANGED <<input, pc>>
    /\ UNCHANGED collVars

\* traced = np.subtract(grid, deflections), of the two grids derived last.
DeriveTraced ==
    /\ pc = "grid"
    /\ Len(output) <= MaxDerived
    /\ Len(output) >= 2
    /\ Len(output[Len(output) - 1].pts) = Len(output[Len(output)].pts)
    /\ output' = Append(output, np_subtract_from(output[Len(output) - 1],
                                                 output[Len(output)]))
    /\ UNCHANGED <<input, pc>>
    /\ UNCHANGED collVars

\* part = grid[lo:hi], of the grid derived last.
DeriveSlice(lo, hi) ==
    /\ pc = "grid"
    /\ Len(output) <= MaxDerived
    /\ lo <= hi /\ hi <= Len(output[Len(output)].pts)
    /\ output' = Append(output, slice(output[Len(output)], lo, hi))
    /\ UNCHANGED <<input, pc>>
    /\ UNCHANGED collVars

NextSubGrid ==
    \/ \E array \in Arrays, sub_grid_size \in SubGridSizes :
          ConstructSubGrid(array, sub_grid_size)
    \/ \E k \in {0, 2, 3} : DeriveDeflections(k)
    \/ DeriveTraced
    \/ \E lo \in 0..MaxLen, hi \in 0..MaxLen : DeriveSlice(lo, hi)

SpecSubGrid == Init /\ [][NextSubGrid]_vars

\* C21: every grid derived from a sub-grid, directly or through other
\* derived grids, is a SubGrid with the sub_grid_size of the source, and
\* its sub_grid_length is sub_grid_size squared and its sub_grid_fraction
\* 1 / sub_grid_length.
C21_DerivedCarrySubGridSize ==
    pc = "grid" =>
        \A j \in 1..Len(output) :
            /\ output[j].cls = "SubGrid"
            /\ output[j].sub_grid_size = input.sub_grid_size
            /\ output[j].sub_grid_length
                  = output[j].sub_grid_size * output[j].sub_grid_size
            /\ FMul(output[j].sub_grid_fraction, FromInt(output[j].sub_grid_length))
                  = One

\* A sub-grid of sub_grid_size 2, its deflection grid and the traced grid
\* derived from the two carry sub_grid_length 4 and sub_grid_fraction 1/4.
C21_Witness_TracedOfSizeTwo ==
    /\ pc = "grid"
    /\ Len(output) = 3
    /\ input.sub_grid_size = 2
    /\ output[2].pts # output[1].pts
    /\ output[3].pts = [i \in 1..Len(output[1].pts) |->
                           VSub(output[1].pts[i], output[2].pts[i])]
    /\ output[3].sub_grid_length = 4
    /\ output[3].sub_grid_fraction = Q(1, 4)

----------------------------------------------------------------------------
(* The prior specification: the module counter prior_number, the priors    *)
(* constructed so far, and one ClassMappingPriorCollection with its prior  *)
(* models.  input holds the three, output the last reconstruction.         *)

MaxPriors == 4       \* most Prior constructions in one run

PriorClasses == {"Prior", "UniformPrior", "GaussianPrior"}

ModelOrder == <<"sersic_1", "sersic_2">>

ModelNames == {ModelOrder[i] : i \in 1..Len(ModelOrder)}

\* The __init__ arguments of the class added to the collection.
ArgOrder == <<"intensity", "radius">>

Args == {ArgOrder[i] : i \in 1..Len(ArgOrder)}

\* No model of that name has been added to the collection.
NoModel == [a \in {} |-> 0]

\* Prior.__init__ that reads the counter and leaves it as it is.
Prior_init_no_increment(prior_number) ==
    [id |-> prior_number, prior_number |-> prior_number]

\* Prior.__init__: self.id = prior_number; prior_number += 1
Prior_init(prior_number) ==
    [id |-> prior_number, prior_number |-> prior_number + 1]

\* A Prior object: its class, its id and the two parameters of a subclass.
PriorObject(cls, id, p, q) == [cls |-> cls, id |-> id, p |-> p, q |-> q]

Prior_eq(self, other) == self.id = other.id

\* hash(n) of a Python int: the int itself, but -2 for -1.
int_hash(n) == IF n = -1 THEN -2 ELSE n

Prior_hash(self) == int_hash(self.id)

\* config.get(cls.__name__, prior_name): the kind of prior and its values.
config_get(prior_name) ==
    IF prior_name = "intensity" THEN <<"u", FromInt(0), FromInt(2)>>
    ELSE <<"g", One, One>>

\* The class and parameters make_prior gives the prior of an argument.
make_prior(prior_name, id) ==
    IF config_get(prior_name)[1] = "u"
    THEN PriorObject("UniformPrior", id, config_get(prior_name)[2],
                     config_get(prior_name)[3])
    ELSE PriorObject("GaussianPrior", id, config_get(prior_name)[2],
                     config_get(prior_name)[3])

\* scipy.special.erfinv at -1, 0 and 1, where it is exact.
erfinv(x) ==
    IF x = FromInt(0) THEN FromInt(0)
    ELSE IF x = One THEN Inf
    ELSE IF x = FNeg(One) THEN FNeg(Inf)
    ELSE NaN

\* x * math.sqrt(2) for x zero or infinite, where it is exact.
times_sqrt2(x) == x

\* UniformPrior.value_for and GaussianPrior.value_for
value_for(self, unit) ==
    IF self.cls = "UniformPrior"
    THEN FAdd(self.p, FMul(unit, FSub(self.q, self.p)))
    ELSE FAdd(self.p,
              FMul(self.q,
                   times_sqrt2(erfinv(FSub(FMul(unit, FromInt(2)), One)))))

\* The state after one more Prior of the class has been constructed.
Constructed(state, cls, p, q) ==
    [state EXCEPT
       !.prior_number = Prior_init(state.prior_number).prior_number,
       !.constructed = Append(state.constructed,
                              PriorObject(cls, Prior_init(state.prior_number).id,
                                          p, q))]

RECURSIVE add_args(_, _, _)
\* add_class's loop: one make_prior per argument, set on the prior model.
add_args(state, name, args) ==
    IF args = <<>> THEN state
    ELSE add_args(
           [Constructed(state,
                        make_prior(Head(args), 0).cls,
                        make_prior(Head(args), 0).p,
                        make_prior(Head(args), 0).q)
              EXCEPT !.models[name] =
                 [a \in (DOMAIN state.models[name]) \cup {Head(args)} |->
                    IF a = Head(args)
                    THEN make_prior(Head(args), Prior_init(state.prior_number).id)
                    ELSE state.models[name][a]]],
           name, Tail(args))

\* ClassMappingPriorCollection.add_class(name, cls)
add_class(state, name) ==
    add_args([state EXCEPT !.models[name] = NoModel], name, ArgOrder)

\* PriorModel.priors of every prior model of the collection, in turn: the
\* (attribute name, prior) tuples.
prior_tuples(models) ==
    LET tuple(k) ==
            <<ArgOrder[((k - 1) % Len(ArgOrder)) + 1],
              models[ModelOrder[((k - 1) \div Len(ArgOrder)) + 1]]
                    [ArgOrder[((k - 1) % Len(ArgOrder)) + 1]]>>
        added(k) ==
            DOMAIN models[ModelOrder[((k - 1) \div Len(ArgOrder)) + 1]] # {}
    IN  SelectSeq([k \in 1..(Len(ModelOrder) * Len(ArgOrder)) |->
                     IF added(k) THEN <<tuple(k)>> ELSE <<>>],
                  LAMBDA s : s # <<>>)

RECURSIVE dict_insert(_, _)
\* {prior[1]: prior for ...}: one tuple for each prior, the last one seen
\* for it, priors being the same key when they are equal (__eq__, on ids).
dict_insert(tuples, acc) ==
    IF tuples = <<>> THEN acc
    ELSE dict_insert(
           Tail(tuples),
           IF \E i \in 1..Len(acc) : Prior_eq(acc[i][2], Head(tuples)[1][2])
           THEN [i \in 1..Len(acc) |->
                   IF Prior_eq(acc[i][2], Head(tuples)[1][2])
                   THEN Head(tuples)[1] ELSE acc[i]]
           ELSE Append(acc, Head(tuples)[1]))

RECURSIVE hash_order(_)
\* The entries of a dict in the order of its slots: a key is stored in the
\* slot of its hash, which for priors is the id while the ids are fewer
\* than the slots.
hash_order(tuples) ==
    IF tuples = <<>> THEN <<>>
    ELSE SelectSeq(hash_order(Tail(tuples)),
                   LAMBDA t : Prior_hash(t[2]) < Prior_hash(Head(tuples)[2]))
         \o <<Head(tuples)>>
         \o SelectSeq(hash_order(Tail(tuples)),
                      LAMBDA t : Prior_hash(t[2]) >= Prior_hash(Head(tuples)[2]))

\* {prior[1]: prior for ...}.values(), acc the entries already in the dict
dict_values(tuples, acc) == hash_order(dict_insert(tuples, acc))

\* The tuples of every attribute, a shared prior once for each of them.
prior_list(models) ==
    [k \in 1..Len(prior_tuples(models)) |-> prior_tuples(models)[k][1]]

\* ClassMappingPriorCollection.prior_set
prior_set(models) == dict_values(prior_tuples(models), <<>>)

RECURSIVE sorted_by_id(_)
\* sorted(list, key=lambda prior: prior[1].id), a stable sort
sorted_by_id(tuples) ==
    IF tuples = <<>> THEN <<>>
    ELSE SelectSeq(sorted_by_id(Tail(tuples)),
                   LAMBDA t : t[2].id < Head(tuples)[2].id)
         \o <<Head(tuples)>>
         \o SelectSeq(sorted_by_id(Tail(tuples)),
                      LAMBDA t : t[2].id >= Head(tuples)[2].id)

\* ClassMappingPriorCollection.priors
priors(models) == sorted_by_id(prior_set(models))

\* arguments = dict(map(lambda prior, unit: ..., self.priors, vector)): the
\* value of the prior with an id.
arguments(models, vector, id) ==
    value_for(priors(models)[CHOOSE i \in 1..Len(priors(models)) :
                                priors(models)[i][2].id = id][2],
              vector[CHOOSE i \in 1..Len(priors(models)) :
                        priors(models)[i][2].id = id])

\* PriorModel.instance_for_arguments: the instance's attribute values.
instance_for_arguments(models, vector, name) ==
    [a \in DOMAIN models[name] |-> arguments(models, vector, models[name][a].id)]

\* ClassMappingPriorCollection.reconstruction_for_vector
reconstruction_for_vector(models, vector) ==
    [name \in ModelNames |-> instance_for_arguments(models, vector, name)]

Units == {Q(1, 2), One}

Vectors(n) == [1..n -> Units]

IsAdded(name) == DOMAIN input.models[name] # {}

\* import prior; collection = ClassMappingPriorCollection(config)
ImportPrior ==
    /\ pc = "idle"
    /\ input' = [prior_number |-> 0, constructed |-> <<>>,
                 models |-> [name \in ModelNames |-> NoModel],
                 op |-> <<"import">>]
    /\ pc' = "priors"
    /\ UNCHANGED output
    /\ UNCHANGED collVars

\* Prior(), UniformPrior(0., 1.) or GaussianPrior(1., 1.)
ConstructPrior(cls) ==
    /\ pc = "priors"
    /\ input.prior_number < MaxPriors
    /\ input' = [Constructed(input, cls, FromInt(0), One)
                   EXCEPT !.op = <<"construct">>]
    /\ UNCHANGED <<output, pc>>
    /\ UNCHANGED collVars

\* collection.add_class(name, cls)
AddClass(name) ==
    /\ pc = "priors"
    /\ input.prior_number + Len(ArgOrder) <= MaxPriors
    /\ input' = [add_class(input, name) EXCEPT !.op = <<"add_class">>]
    /\ UNCHANGED <<output, pc>>
    /\ UNCHANGED collVars

\* collection.<name>.<arg> = collection.<other>.<other_arg>
Tie(name, arg, other, other_arg) ==
    /\ pc = "priors"
    /\ IsAdded(name) /\ IsAdded(other)
    /\ input' = [input EXCEPT !.models[name][arg] = input.models[other][other_arg],
                              !.op = <<"tie">>]
    /\ UNCHANGED <<output, pc>>
    /\ UNCHANGED collVars

\* collection.reconstruction_for_vector(vector), the vector as long as
\* collection.priors
ReconstructionForVector(vector) ==
    /\ pc = "priors"
    /\ Len(vector) = Len(priors(input.models))
    /\ Len(vector) > 0
    /\ output' = reconstruction_for_vector(input.models, vector)
    /\ input' = [input EXCEPT !.op = <<"reconstruction_for_vector">>]
    /\ pc' = "reconstructed"
    /\ UNCHANGED collVars

NextPrior ==
    \/ ImportPrior
    \/ \E cls \in PriorClasses : ConstructPrior(cls)
    \/ \E name \in ModelNames : AddClass(name)
    \/ \E name \in ModelNames, arg \in Args, other \in ModelNames,
          other_arg \in Args : Tie(name, arg, other, other_arg)
    \/ \E n \in 1..(Len(ModelOrder) * Len(ArgOrder)) :
          \E vector \in Vectors(n) : ReconstructionForVector(vector)

SpecPrior == Init /\ [][NextPrior]_vars

\* C30: every Prior constructed has an id greater than the id of every
\* Prior constructed before it, two distinct priors are never equal and
\* never hash alike, and prior_number is the number of priors constructed.
C30_IdsStrictlyIncrease ==
    pc \in {"priors", "reconstructed"} =>
       /\ input.prior_number = Len(input.constructed)
       /\ \A i \in 1..Len(input.constructed) :
             \A j \in 1..Len(input.constructed) :
                i < j =>
                   /\ input.constructed[i].id < input.constructed[j].id
                   /\ ~Prior_eq(input.constructed[i], input.constructed[j])
                   /\ Prior_hash(input.constructed[i])
                         # Prior_hash(input.constructed[j])

\* A Prior, a GaussianPrior and the two priors of an added class were
\* constructed, four in all, of three classes.
C30_Witness_FourPriors ==
    /\ pc = "priors"
    /\ Len(input.constructed) = 4
    /\ input.constructed[1].cls = "Prior"
    /\ input.constructed[2].cls = "GaussianPrior"
    /\ input.constructed[3].cls = "UniformPrior"
    /\ IsAdded("sersic_2")
    /\ input.models["sersic_2"]["intensity"].id = 2
    /\ input.models["sersic_2"]["radius"] = input.constructed[4]
    /\ input.constructed[4].id = 3

\* The (model, argument) pairs that have a prior.
Attributes(models) ==
    {t \in ModelNames \X Args : t[2] \in DOMAIN models[t[1]]}

PriorOf(models, t) == models[t[1]][t[2]]

\* The step is an assignment of one model's prior to an attribute.
IsTie == pc = "priors" /\ pc' = "priors" /\ input'.op = <<"tie">>

\* The assignment replaced a prior that no other attribute has.
ReplacedSolePrior(models, assigned) ==
    \E t \in Attributes(models) :
       /\ PriorOf(assigned, t) # PriorOf(models, t)
       /\ \A u \in Attributes(models) \ {t} :
             PriorOf(models, u) # PriorOf(models, t)

\* priors holds each prior of the collection once, in increasing id order.
PriorsUniqueAndSorted(models) ==
    /\ \A i \in 1..Len(priors(models)) : \A j \in 1..Len(priors(models)) :
          i < j => priors(models)[i][2].id < priors(models)[j][2].id
    /\ {priors(models)[i][2] : i \in 1..Len(priors(models))}
          = {PriorOf(models, t) : t \in Attributes(models)}

\* Attributes with the same prior have the same value in the reconstruction.
TiedValuesAgree ==
    \A t \in Attributes(input.models) : \A u \in Attributes(input.models) :
       PriorOf(input.models, t) = PriorOf(input.models, u)
          => /\ output[t[1]][t[2]] = output[u[1]][u[2]]
             /\ ~IsNaN(output[t[1]][t[2]])

\* C23 as stated: every assignment of one model's prior to another model's
\* attribute reduces the number of priors by exactly one.
C23_TyingReducesByOne ==
    [][IsTie => Len(priors(input'.models)) = Len(priors(input.models)) - 1]_vars

\* C23: priors is a list of the collection's priors, each once, sorted by
\* id; assigning one model's prior to an attribute reduces the number of
\* priors by exactly one when the prior it replaces belongs to no other
\* attribute, and leaves the number unchanged otherwise; every
\* reconstruction gives attributes that share a prior the same value.
C23_TyingSolePriorReducesByOne ==
    /\ [](pc \in {"priors", "reconstructed"}
             => PriorsUniqueAndSorted(input.models))
    /\ [][IsTie =>
            Len(priors(input'.models)) =
               IF ReplacedSolePrior(input.models, input'.models)
               THEN Len(priors(input.models)) - 1
               ELSE Len(priors(input.models))]_vars
    /\ [](pc = "reconstructed" => TiedValuesAgree)

\* sersic_1.intensity was tied to sersic_2.intensity, leaving three priors,
\* and the reconstruction gave the two intensities the same value and the
\* two radii different ones.
C23_Witness_TiedIntensity ==
    /\ pc = "reconstructed"
    /\ IsAdded("sersic_1") /\ IsAdded("sersic_2")
    /\ input.models["sersic_1"]["intensity"].id = 2
    /\ input.models["sersic_2"]["intensity"].id = 2
    /\ Len(priors(input.models)) = 3
    /\ output["sersic_1"] = [intensity |-> One, radius |-> Inf]
    /\ output["sersic_2"] = [intensity |-> One, radius |-> One]

----------------------------------------------------------------------------
(* The data specification: the noise-map factories of AbstractNoiseMap and *)
(* load_exposure_time_map.  input holds the call and its arguments,        *)
(* output what the call returned or raised.                                *)

LargeNoise == 100000000

\* The values of the data module: a class with a number, a text, an array
\* or a shape.
DataValue(cls, num, text, arr, dims) ==
    [cls |-> cls, num |-> num, text |-> text, arr |-> arr, dims |-> dims]

DataNone == DataValue("NoneType", NaN, "", <<>>, <<>>)

DataFloat(x) == DataValue("float", x, "", <<>>, <<>>)

DataInt(n) == DataValue("int", FromInt(n), "", <<>>, <<>>)

DataStr(s) == DataValue("str", NaN, s, <<>>, <<>>)

DataShape(d) == DataValue("tuple", NaN, "", <<>>, d)

\* A Scaled array, by its values in_2d (row after row).
Scaled(arr) == DataValue("Scaled", NaN, "", arr, <<>>)

\* An exception raised by a call.
DataRaise(exc) ==
    [cls |-> exc, factory |-> "", array |-> <<>>, value |-> DataNone,
     shape |-> DataNone, file_path |-> DataNone, hdu |-> DataNone,
     pixel_scale |-> DataNone]

\* return with no value
ReturnNone ==
    [cls |-> "NoneType", factory |-> "", array |-> <<>>, value |-> DataNone,
     shape |-> DataNone, file_path |-> DataNone, hdu |-> DataNone,
     pixel_scale |-> DataNone]

\* cls.from_2d(array_2d=..., pixel_scale=...)
from_2d(cls, array_2d, pixel_scale) ==
    [cls |-> cls, factory |-> "from_2d", array |-> array_2d,
     value |-> DataNone, shape |-> DataNone, file_path |-> DataNone,
     hdu |-> DataNone, pixel_scale |-> pixel_scale]

\* ExposureTimeMap.from_single_value_shape_and_pixel_scale(value=...,
\* pixel_scale=..., shape=...)
from_single_value_shape_and_pixel_scale(value, pixel_scale, shape) ==
    [cls |-> "ExposureTimeMap",
     factory |-> "from_single_value_shape_and_pixel_scale", array |-> <<>>,
     value |-> value, shape |-> shape, file_path |-> DataNone,
     hdu |-> DataNone, pixel_scale |-> pixel_scale]

\* ExposureTimeMap.from_fits_with_pixel_scale(file_path=..., hdu=...,
\* pixel_scale=...)
from_fits_with_pixel_scale(file_path, hdu, pixel_scale) ==
    [cls |-> "ExposureTimeMap", factory |-> "from_fits_with_pixel_scale",
     array |-> <<>>, value |-> DataNone, shape |-> DataNone,
     file_path |-> file_path, hdu |-> hdu, pixel_scale |-> pixel_scale]

\* noise_map[noise_map == np.inf] = 1.0e8
inf_to_large(noise_map) ==
    [i \in 1..Len(noise_map) |->
       IF noise_map[i] = Inf THEN FromInt(LargeNoise) ELSE noise_map[i]]

\* AbstractNoiseMap.from_weight_map
from_weight_map(pixel_scale, weight_map) ==
    from_2d("AbstractNoiseMap",
            inf_to_large([i \in 1..Len(weight_map.arr) |->
                            FDiv(One, FSqrt(weight_map.arr[i]))]),
            pixel_scale)

\* AbstractNoiseMap.from_inverse_noise_map
from_inverse_noise_map(pixel_scale, inverse_noise_map) ==
    from_2d("AbstractNoiseMap",
            [i \in 1..Len(inverse_noise_map.arr) |->
               FDiv(One, inverse_noise_map.arr[i])],
            pixel_scale)

FAbs(a) == [n |-> Abs(a.n), d |-> a.d]

RECURSIVE np_max(_)
\* np.max of an array that is not empty
np_max(arr) ==
    IF Len(arr) = 1 THEN arr[1]
    ELSE IF FGt(arr[1], np_max(Tail(arr))) THEN arr[1]
    ELSE np_max(Tail(arr))

\* ExposureTimeMap.from_exposure_time_and_inverse_noise_map
from_exposure_time_and_inverse_noise_map(pixel_scale, exposure_time, inverse_noise_map) ==
    IF inverse_noise_map = DataNone THEN DataRaise("AttributeError")
    ELSE IF exposure_time = DataNone THEN DataRaise("TypeError")
    ELSE from_2d("ExposureTimeMap",
                 [i \in 1..Len(inverse_noise_map.arr) |->
                    FAbs(FMul(exposure_time.num,
                              FDiv(inverse_noise_map.arr[i],
                                   np_max(inverse_noise_map.arr))))],
                 pixel_scale)

\* load_exposure_time_map with the check for two supplied quantities made
\* only where no option is set.
load_exposure_time_map_checked_late(a) ==
    IF ~a.exposure_time_map_from_inverse_noise_map
    THEN (IF a.exposure_time # DataNone /\ a.exposure_time_map_path # DataNone
          THEN DataRaise("DataException")
          ELSE IF a.exposure_time # DataNone /\ a.exposure_time_map_path = DataNone
          THEN from_single_value_shape_and_pixel_scale(
                   a.exposure_time, a.pixel_scale, a.shape)
          ELSE IF a.exposure_time = DataNone /\ a.exposure_time_map_path # DataNone
          THEN from_fits_with_pixel_scale(
                   a.exposure_time_map_path, a.exposure_time_map_hdu,
                   a.pixel_scale)
          ELSE ReturnNone)
    ELSE from_exposure_time_and_inverse_noise_map(
             a.pixel_scale, a.exposure_time, a.inverse_noise_map)

\* load_exposure_time_map, a the record of its arguments
load_exposure_time_map(a) ==
    IF a.exposure_time # DataNone /\ a.exposure_time_map_path # DataNone
    THEN DataRaise("DataException")
    ELSE IF ~a.exposure_time_map_from_inverse_noise_map
    THEN (IF a.exposure_time # DataNone /\ a.exposure_time_map_path = DataNone
          THEN from_single_value_shape_and_pixel_scale(
                   a.exposure_time, a.pixel_scale, a.shape)
          ELSE IF a.exposure_time = DataNone /\ a.exposure_time_map_path # DataNone
          THEN from_fits_with_pixel_scale(
                   a.exposure_time_map_path, a.exposure_time_map_hdu,
                   a.pixel_scale)
          ELSE ReturnNone)
    ELSE from_exposure_time_and_inverse_noise_map(
             a.pixel_scale, a.exposure_time, a.inverse_noise_map)

NoiseValues == {FromInt(0), One, FromInt(4), Q(1, 4)}

NoiseArrays == UNION {[1..n -> NoiseValues] : n \in 1..MaxPixels}

ExposureArguments ==
    [exposure_time_map_path : {DataNone, DataStr("exposure_time_map.fits")},
     exposure_time_map_hdu : {DataInt(0), DataInt(1)},
     pixel_scale : {DataFloat(Q(1, 10))},
     shape : {DataNone, DataShape(<<2, 2>>)},
     exposure_time : {DataNone, DataFloat(One), DataFloat(FromInt(2))},
     exposure_time_map_from_inverse_noise_map : BOOLEAN,
     inverse_noise_map : {DataNone} \cup {Scaled(arr) : arr \in NoiseArrays}]

\* load_exposure_time_map(...)
LoadExposureTimeMap(a) ==
    /\ pc = "idle"
    /\ input' = [op |-> "load_exposure_time_map", args |-> a]
    /\ output' = load_exposure_time_map(a)
    /\ pc' = "returned"
    /\ UNCHANGED collVars

\* AbstractNoiseMap.from_weight_map(pixel_scale, weight_map)
FromWeightMap(weight_map) ==
    /\ pc = "idle"
    /\ input' = [op |-> "from_weight_map", args |-> weight_map]
    /\ output' = from_weight_map(DataFloat(Q(1, 10)), weight_map)
    /\ pc' = "returned"
    /\ UNCHANGED collVars

\* AbstractNoiseMap.from_inverse_noise_map(pixel_scale, inverse_noise_map)
FromInverseNoiseMap(inverse_noise_map) ==
    /\ pc = "idle"
    /\ input' = [op |-> "from_inverse_noise_map", args |-> inverse_noise_map]
    /\ output' = from_inverse_noise_map(DataFloat(Q(1, 10)), inverse_noise_map)
    /\ pc' = "returned"
    /\ UNCHANGED collVars

NextData ==
    \/ \E a \in ExposureArguments : LoadExposureTimeMap(a)
    \/ \E arr \in NoiseArrays : FromWeightMap(Scaled(arr))
    \/ \E arr \in NoiseArrays : FromInverseNoiseMap(Scaled(arr))

SpecData == Init /\ [][NextData]_vars

Loaded == pc = "returned" /\ input.op = "load_exposure_time_map"

\* C26: load_exposure_time_map raises DataException, and returns no map,
\* whenever both exposure_time and exposure_time_map_path are supplied,
\* whatever exposure_time_map_from_inverse_noise_map is; with one of the
\* two supplied and the flag false it returns the single-value map of the
\* exposure time, or the map loaded from the file.
C26_BothSuppliedRaises ==
    Loaded =>
       /\ (input.args.exposure_time # DataNone
             /\ input.args.exposure_time_map_path # DataNone)
          => output = DataRaise("DataException")
       /\ (~input.args.exposure_time_map_from_inverse_noise_map
             /\ input.args.exposure_time # DataNone
             /\ input.args.exposure_time_map_path = DataNone)
          => output = from_single_value_shape_and_pixel_scale(
                          input.args.exposure_time, input.args.pixel_scale,
                          input.args.shape)
       /\ (~input.args.exposure_time_map_from_inverse_noise_map
             /\ input.args.exposure_time = DataNone
             /\ input.args.exposure_time_map_path # DataNone)
          => output = from_fits_with_pixel_scale(
                          input.args.exposure_time_map_path,
                          input.args.exposure_time_map_hdu,
                          input.args.pixel_scale)

\* Both quantities and an inverse noise map were supplied with the flag
\* set, and the call raised DataException.
C26_Witness_BothWithFlagSet ==
    /\ Loaded
    /\ input.args.exposure_time = DataFloat(FromInt(2))
    /\ input.args.exposure_time_map_path = DataStr("exposure_time_map.fits")
    /\ input.args.exposure_time_map_from_inverse_noise_map
    /\ input.args.inverse_noise_map = Scaled(<<One, FromInt(4)>>)
    /\ output.cls = "DataException"

\* C27: the noise map from_inverse_noise_map returns has no infinite entry.
C27_NoInfiniteNoise ==
    (pc = "returned" /\ input.op = "from_inverse_noise_map") =>
       \A i \in 1..Len(output.array) : IsFinite(output.array[i])

----------------------------------------------------------------------------
(* The grid-mapper specification: a collection of grid mappers is built    *)
(* from a mask or for a simulation, and its image grid mapper trims an     *)
(* array of the padded shape.                                              *)

\* ImageGridMapper.__new__: the view with its two shapes.
ImageGridMapper(arr, original_shape, padded_shape) ==
    [cls |-> "ImageGridMapper", pts |-> arr, sub_grid_size |-> 0,
     original_shape |-> original_shape, padded_shape |-> padded_shape]

\* SubGridMapper.__init__
SubGridMapper(arr, original_shape, padded_shape, sub_grid_size) ==
    [cls |-> "SubGridMapper", pts |-> arr, sub_grid_size |-> sub_grid_size,
     original_shape |-> original_shape, padded_shape |-> padded_shape]

\* np.full(shape, False)
np_full_False(shape) == [r \in 1..shape[1] |-> [c \in 1..shape[2] |-> FALSE]]

\* (shape[0] + psf_shape[0] - 1, shape[1] + psf_shape[1] - 1)
PaddedShape(shape, psf_shape) ==
    <<shape[1] + psf_shape[1] - 1, shape[2] + psf_shape[2] - 1>>

\* ImageGridMapper.mapper_from_shapes_and_pixel_scale
mapper_from_shapes_and_pixel_scale(shape, psf_shape, pixel_scale) ==
    ImageGridMapper(
        masked_image_grid(Mask(np_full_False(PaddedShape(shape, psf_shape)),
                               pixel_scale)),
        shape, PaddedShape(shape, psf_shape))

\* SubGridMapper.mapper_from_mask_sub_grid_size_and_psf_shape
mapper_from_mask_sub_grid_size_and_psf_shape(mask, sub_grid_size, psf_shape) ==
    SubGridMapper(
        sub_grid_masked(
            Mask(np_full_False(PaddedShape(<<Rows(mask), Cols(mask)>>, psf_shape)),
                 mask.pixel_scale),
            sub_grid_size),
        <<Rows(mask), Cols(mask)>>,
        PaddedShape(<<Rows(mask), Cols(mask)>>, psf_shape),
        sub_grid_size)

\* LensingGrids.grid_mappers_from_mask_sub_grid_size_and_psf_shape
grid_mappers_from_mask_sub_grid_size_and_psf_shape(mask, sub_grid_size, psf_shape) ==
    LensingGrids(
        mapper_from_shapes_and_pixel_scale(<<Rows(mask), Cols(mask)>>, psf_shape,
                                           mask.pixel_scale),
        mapper_from_mask_sub_grid_size_and_psf_shape(mask, sub_grid_size, psf_shape),
        ndarray(<< <<0, 0>> >>))

\* LensingGrids.for_simulation
for_simulation(shape, pixel_scale, psf_shape, sub_grid_size) ==
    grid_mappers_from_mask_sub_grid_size_and_psf_shape(
        Mask(np_full_False(shape), pixel_scale), sub_grid_size, psf_shape)

\* int((padded - original) / 2)
Trim(padded, original) == (padded - original) \div 2

\* a[lo:hi] of a sequence, for 0 <= lo and hi <= len(a)
Slice(a, lo, hi) == SubSeq(a, lo + 1, hi)

\* ImageGridMapper.trim_padded_array_to_original_shape
trim_padded_array_to_original_shape(self, padded_array_2d) ==
    [r \in 1..Len(Slice(padded_array_2d,
                        Trim(self.padded_shape[1], self.original_shape[1]),
                        self.padded_shape[1]
                           - Trim(self.padded_shape[1], self.original_shape[1]))) |->
       Slice(Slice(padded_array_2d,
                   Trim(self.padded_shape[1], self.original_shape[1]),
                   self.padded_shape[1]
                      - Trim(self.padded_shape[1], self.original_shape[1]))[r],
             Trim(self.padded_shape[2], self.original_shape[2]),
             self.padded_shape[2]
                - Trim(self.padded_shape[2], self.original_shape[2]))]

\* An array of a shape each of whose entries is its own (row, column).
IndexArray(shape) == [r \in 1..shape[1] |-> [c \in 1..shape[2] |-> <<r - 1, c - 1>>]]

PsfShapes == {<<1, 1>>, <<3, 3>>, <<2, 2>>, <<2, 3>>, <<3, 1>>}

Shapes == (1..MaxShape) \X (1..MaxShape)

\* The masks with at most one masked pixel.
MapperMasks ==
    {mask \in Masks :
        Cardinality({px \in (1..Rows(mask)) \X (1..Cols(mask)) :
                        mask.array[px[1]][px[2]]}) <= 1}

NoArray == <<>>

\* grids = LensingGrids.grid_mappers_from_mask_sub_grid_size_and_psf_shape(...)
GridMappersFromMask(mask, sub_grid_size, psf_shape) ==
    /\ pc = "idle"
    /\ input' = [factory |-> "grid_mappers_from_mask_sub_grid_size_and_psf_shape",
                 mask |-> mask, sub_grid_size |-> sub_grid_size,
                 psf_shape |-> psf_shape]
    /\ output' = [grids |-> grid_mappers_from_mask_sub_grid_size_and_psf_shape(
                                mask, sub_grid_size, psf_shape),
                  trimmed |-> NoArray]
    /\ pc' = "mapped"
    /\ UNCHANGED collVars

\* grids = LensingGrids.for_simulation(shape, pixel_scale, psf_shape, sub_grid_size)
ForSimulation(shape, pixel_scale, psf_shape, sub_grid_size) ==
    /\ pc = "idle"
    /\ input' = [factory |-> "for_simulation",
                 mask |-> Mask(np_full_False(shape), pixel_scale),
                 sub_grid_size |-> sub_grid_size, psf_shape |-> psf_shape]
    /\ output' = [grids |-> for_simulation(shape, pixel_scale, psf_shape,
                                           sub_grid_size),
                  trimmed |-> NoArray]
    /\ pc' = "mapped"
    /\ UNCHANGED collVars

\* grids.image.trim_padded_array_to_original_shape(padded_array_2d), the
\* array of the mapper's padded shape
TrimPaddedArray ==
    /\ pc = "mapped"
    /\ output' = [output EXCEPT !.trimmed =
                     trim_padded_array_to_original_shape(
                         output.grids.image,
                         IndexArray(output.grids.image.padded_shape))]
    /\ pc' = "trimmed"
    /\ UNCHANGED input
    /\ UNCHANGED collVars

NextMapper ==
    \/ \E mask \in MapperMasks, sub_grid_size \in SubGridSizes,
          psf_shape \in PsfShapes :
          GridMappersFromMask(mask, sub_grid_size, psf_shape)
    \/ \E shape \in Shapes, pixel_scale \in PixelScales, psf_shape \in PsfShapes,
          sub_grid_size \in SubGridSizes :
          ForSimulation(shape, pixel_scale, psf_shape, sub_grid_size)
    \/ TrimPaddedArray

SpecMapper == Init /\ [][NextMapper]_vars

\* C25: the collection a grid-mapper factory returns has no blurring grid.
C25_MapperBlurringAbsent ==
    pc \in {"mapped", "trimmed"} => GetItem(output.grids, 2) = None

\* C28: the mapper's padded shape is shape + psf_shape - 1 on each axis, and
\* the array trimmed from an array of the padded shape has the original
\* shape and is the centre of the padded array.
C28_TrimmedHasOriginalShape ==
    pc = "trimmed" =>
       /\ output.grids.image.padded_shape
             = <<Rows(input.mask) + input.psf_shape[1] - 1,
                 Cols(input.mask) + input.psf_shape[2] - 1>>
       /\ Len(output.trimmed) = Rows(input.mask)
       /\ \A r \in 1..Len(output.trimmed) :
             /\ Len(output.trimmed[r]) = Cols(input.mask)
             /\ \A c \in 1..Len(output.trimmed[r]) :
                   /\ 2 * (output.trimmed[r][c][1] - (r - 1))
                         = input.psf_shape[1] - 1
                   /\ 2 * (output.trimmed[r][c][2] - (c - 1))
                         = input.psf_shape[2] - 1

----------------------------------------------------------------------------
(* Relocation and distance from the centre, in the border specification.   *)

\* a <= b; every comparison with nan is false.
FLe(a, b) == ~IsNaN(a) /\ ~IsNaN(b) /\ a.n * b.d <= b.n * a.d

\* C24: no relocated point is farther from the border's centre than the
\* point it was relocated from.
C24_NeverMovedOutward ==
    RelocatedDone =>
        \A i \in 1..Len(input.grid) :
            FLe(SquaredRadius(Shifted(input.self, output.value.pts[i])),
                SquaredRadius(Shifted(input.self, input.grid[i])))

\* About the centre (0, 0), the linear fit to the border points (3, 0) and
\* (0, 1) is -3 at the angle of the point (0, -1), whose move factor -3 is
\* not capped: the point was relocated to (0, 3), three times as far out.
NegativeFitMovedOutward ==
    /\ RelocatedDone
    /\ input.self = ImageGridBorder(<<0, 1>>, 1, <<0, 0>>)
    /\ input.grid = AsFloats(<< <<3, 0>>, <<0, 1>>, <<0, -1>> >>)
    /\ FittedRadiusAt(input.self, input.grid, 3) = FromInt(-3)
    /\ move_factors_from_grid(input.self, input.grid)[3] = FromInt(-3)
    /\ output.value.pts[3] = <<FromInt(0), FromInt(3)>>

\* C29: relocated_grid_from_grid, applied to the grid it returned, returns
\* that grid unchanged.
C29_RelocationIdempotent ==
    (/\ RelocatedDone
     /\ ExactFor(input.self, output.value.pts))
       => relocated_grid_from_grid(input.self, output.value.pts)
             = output.value.pts

\* The relocation and its repetition, about the centre (0, 0) with a
\* constant fit to two border points of different radii.
RelocatedTwiceAtOrigin ==
    /\ RelocatedDone
    /\ input.self.centre = <<FromInt(0), FromInt(0)>>
    /\ input.self.polynomial_degree = 0
    /\ input.grid = AsFloats(<< <<1, 0>>, <<2, 0>> >>)
    /\ input.self.indices = <<0, 1>>
    /\ output.value.pts = << <<One, FromInt(0)>>, <<Q(3, 2), FromInt(0)>> >>
    /\ relocated_grid_from_grid(input.self, output.value.pts)
          = << <<One, FromInt(0)>>, <<Q(5, 4), FromInt(0)>> >>

============================================================================
